---- MODULE Spec2Model ----
(***************************************************************************)
(* Two-tier token-bucket admission control of weather-api-redis            *)
(* (internal/middleware/rate_limiter.go, internal/config/config.go).       *)
(*                                                                         *)
(* Time is counted in seconds and advances in steps of TickSeconds.        *)
(* A bucket's tokens are counted in units of 1/60 token, so that a rate of *)
(* r requests per minute (rate.Limit(r/60.0) tokens per second) refills    *)
(* exactly r units per second and one request costs 60 units.              *)
(* Strings that the code parses (addresses, header values) are sequences   *)
(* of one-character strings; strings it only compares are TLA+ strings.    *)
(***************************************************************************)
EXTENDS Integers, Sequences, FiniteSets, TLC

VARIABLES
    settings,        \* viper's store: setting name -> raw configured value
    now,             \* wall clock, seconds
    limiters,        \* heap of *rate.Limiter objects: id -> bucket
    globalVisitors,  \* map[string]*visitor
    paramVisitors,   \* map[string]map[string]*paramVisitor
    muGlobal,        \* sync.Mutex: "free" or the process holding it
    muParam,         \* sync.Mutex: "free" or the process holding it
    pc,              \* position of every request goroutine
    req,             \* request local: the *http.Request
    ip,              \* request local: client identity
    param,           \* request local: parameter key
    globalLimiter,   \* request local: *rate.Limiter of the global tier 
    paramLimiter,    \* request local: *rate.Limiter of the param tier 
    resp,            \* what the middleware wrote and whether it called next
    sweep,           \* the two cleanup goroutines: position and start of sleep
    reset,           \* position of a ResetVisitors call
    driver,          \* the test that issues the requests: what it has done so far
    env,             \* what the repository reads of its environment and configuration
    cache,           \* the Redis store: key -> body and time of expiry
    call,            \* the calls of the repository's GetWeather: position and locals
    handler          \* the calls of HandleWeather: position, request and response

vars == <<settings, now, limiters, globalVisitors, paramVisitors, muGlobal, muParam,
          pc, req, ip, param, globalLimiter, paramLimiter, resp, sweep, reset, driver,
          env, cache, call, handler>>

\* the state of the weather endpoint behind the rate limiter
weather == <<env, cache, call, handler>>

\* the state the rate limiter does not touch
others == <<driver, weather>>

\* the state of the rate limiter but the clock
middleware == <<settings, limiters, globalVisitors, paramVisitors, muGlobal, muParam,
                pc, req, ip, param, globalLimiter, paramLimiter, resp, sweep, reset>>

(***************************************************************************)
(* Bounds of the model.                                                    *)
(***************************************************************************)
TickSeconds == 30
MaxTicks == 2

(***************************************************************************)
(* Program constants.                                                      *)
(***************************************************************************)
Minute == 60
StatusTooManyRequests == 429
DefaultGlobalRate == 10
DefaultGlobalBurst == 10
DefaultParamRate == 2
DefaultParamBurst == 2
DefaultCleanupMinutes == 3
TokenUnit == 60

NoneParam == "__none__"
GlobalLimitMessage == "Too Many Requests (global limit)"
ParamLimitMessage == "Too Many Requests (per-param limit)"
GlobalLimitError == "Rate limit exceeded: max 10 requests per minute per user/IP"
ParamLimitError == "Rate limit exceeded: max 2 requests per minute per unique param per user/IP"

Min(a, b) == IF a <= b THEN a ELSE b

(***************************************************************************)
(* Strings the code parses.                                                *)
(***************************************************************************)
\* index of the first occurrence of c in s, 0 when there is none
RECURSIVE IndexFrom(_, _, _)
IndexFrom(s, c, i) ==
    IF i > Len(s) THEN 0
    ELSE IF s[i] = c THEN i
    ELSE IndexFrom(s, c, i + 1)

Index(s, c) == IndexFrom(s, c, 1)

\* index of the last occurrence of c in s, 0 when there is none
RECURSIVE LastIndexFrom(_, _, _)
LastIndexFrom(s, c, i) ==
    IF i < 1 THEN 0
    ELSE IF s[i] = c THEN i
    ELSE LastIndexFrom(s, c, i - 1)

LastIndex(s, c) == LastIndexFrom(s, c, Len(s))

\* strings.Split(s, sep)[0]
SplitFirst(s, sep) ==
    IF Index(s, sep) = 0 THEN s ELSE SubSeq(s, 1, Index(s, sep) - 1)

RECURSIVE TrimLeft(_)
TrimLeft(s) ==
    IF s # <<>> /\ Head(s) = " " THEN TrimLeft(Tail(s)) ELSE s

RECURSIVE TrimRight(_)
TrimRight(s) ==
    IF s # <<>> /\ s[Len(s)] = " " THEN TrimRight(SubSeq(s, 1, Len(s) - 1)) ELSE s

\* strings.TrimSpace
TrimSpace(s) == TrimRight(TrimLeft(s))

\* net.SplitHostPort for unbracketed addresses: the text before the last colon,
\* an error (and empty results) without a colon or with a colon in the host
SplitHostPort(s) ==
    LET i == LastIndex(s, ":")
        host == SubSeq(s, 1, i - 1)
    IN  IF i = 0 THEN [host |-> <<>>, port |-> <<>>, err |-> "missing port in address"]
        ELSE IF Index(host, ":") # 0
             THEN [host |-> <<>>, port |-> <<>>, err |-> "too many colons in address"]
        ELSE [host |-> host, port |-> SubSeq(s, i + 1, Len(s)), err |-> ""]

\* getIP of the current rate limiter
getIP(r) ==
    IF r.xff # <<>>
    THEN SplitHostPort(TrimSpace(SplitFirst(r.xff, ","))).host
    ELSE SplitHostPort(r.remoteAddr).host

\* getIP of the earlier rate limiter
getIPFirstHop(r) ==
    IF r.xff # <<>>
    THEN TrimSpace(SplitFirst(r.xff, ","))
    ELSE IF SplitHostPort(r.remoteAddr).err # "" THEN r.remoteAddr
    ELSE SplitHostPort(r.remoteAddr).host

\* getParam: r.URL.Query().Get(paramKey); a request's query is <<>> without the
\* parameter and <<v>> with value v
getParam(r) == IF r.query = <<>> THEN "" ELSE r.query[1]

\* a parameter key without lines 297-300: the value as it came
ParamKeyRaw(r) == getParam(r)

\* the parameter key of RateLimitMiddleware
\* a key for the values given that no given value can equal
ParamKeyMarked(r) == IF getParam(r) = "" THEN NoneParam ELSE "=" \o getParam(r)

ParamKeyOf(r) == IF getParam(r) = "" THEN NoneParam ELSE getParam(r)

(***************************************************************************)
(* Configuration (viper).  A raw numeric setting is absent, a text that    *)
(* is no number, or a number; a raw duration is absent or a text made of   *)
(* a number and a unit.                                                    *)
(***************************************************************************)
Absent == [tag |-> "absent", num |-> 0, unit |-> ""]
Empty == [tag |-> "empty", num |-> 0, unit |-> ""]
Text(t) == [tag |-> "text", num |-> 0, unit |-> t]
Num(n) == [tag |-> "num", num |-> n, unit |-> ""]
Dur(n, u) == [tag |-> "dur", num |-> n, unit |-> u]

\* viper.GetFloat64 / viper.GetInt: zero for a missing or unparsable value
GetNumber(raw) == IF raw.tag = "num" THEN raw.num ELSE 0

\* viper.GetString: the empty string for a missing value, a number as its digits
GetString(raw) ==
    IF raw.tag = "absent" THEN Empty
    ELSE IF raw.tag = "num" THEN Dur(raw.num, "")
    ELSE raw

\* time.ParseDuration, in seconds: a number with a unit, or a bare 0
ParseDuration(s) ==
    IF s.tag # "dur" THEN [ok |-> FALSE, dur |-> 0]
    ELSE IF s.unit = "s" THEN [ok |-> TRUE, dur |-> s.num]
    ELSE IF s.unit = "m" THEN [ok |-> TRUE, dur |-> s.num * Minute]
    ELSE IF s.unit = "h" THEN [ok |-> TRUE, dur |-> s.num * 60 * Minute]
    ELSE IF s.unit = "" /\ s.num = 0 THEN [ok |-> TRUE, dur |-> 0]
    ELSE [ok |-> FALSE, dur |-> 0]

\* a cleanup timeout that also falls back to the default for a zero duration
GetRateLimiterCleanupTimeoutOrDefault(cfg) ==
    LET s == GetString(cfg.cleanup_timeout)
        durStr == IF s = Empty THEN Dur(DefaultCleanupMinutes, "m") ELSE s
        parsed == ParseDuration(durStr)
    IN  IF ~parsed.ok \/ parsed.dur = 0 THEN DefaultCleanupMinutes * Minute
        ELSE parsed.dur

GetRateLimiterCleanupTimeout(cfg) ==
    LET s == GetString(cfg.cleanup_timeout)
        durStr == IF s = Empty THEN Dur(DefaultCleanupMinutes, "m") ELSE s
        parsed == ParseDuration(durStr)
    IN  IF ~parsed.ok THEN DefaultCleanupMinutes * Minute ELSE parsed.dur

GetGlobalRateLimiterConfig(cfg) ==
    [rate  |-> IF GetNumber(cfg.global_rate) = 0 THEN DefaultGlobalRate
               ELSE GetNumber(cfg.global_rate),
     burst |-> IF GetNumber(cfg.global_burst) = 0 THEN DefaultGlobalBurst
               ELSE GetNumber(cfg.global_burst)]

GetParamRateLimiterConfig(cfg) ==
    [rate  |-> IF GetNumber(cfg.param_rate) = 0 THEN DefaultParamRate
               ELSE GetNumber(cfg.param_rate),
     burst |-> IF GetNumber(cfg.param_burst) = 0 THEN DefaultParamBurst
               ELSE GetNumber(cfg.param_burst)]

(***************************************************************************)
(* The token bucket (rate.Limiter of golang.org/x/time/rate).              *)
(***************************************************************************)
\* a bucket that starts empty
NewLimiterEmpty(r, burst, t) ==
    [limit |-> r, burst |-> burst, tokens |-> 0, last |-> t]

\* a bucket that starts with one token more than its burst
NewLimiterOverfull(r, burst, t) ==
    [limit |-> r, burst |-> burst, tokens |-> (burst + 1) * TokenUnit, last |-> t]

\* a bucket whose rate per second is the whole part of r/60
NewLimiterWholeRate(r, burst, t) ==
    [limit |-> (r \div TokenUnit) * TokenUnit, burst |-> burst,
     tokens |-> burst * TokenUnit, last |-> t]

\* rate.NewLimiter(rate.Limit(r/60.0), burst): a full bucket
NewLimiter(r, burst, t) ==
    [limit |-> r, burst |-> burst, tokens |-> burst * TokenUnit, last |-> t]

\* the refill: tokens after the time since the last refill, capped at the burst
Advance(l, t) ==
    Min(l.burst * TokenUnit, l.tokens + (t - l.last) * l.limit)

\* Allow(): refill, then take one token if there is one
Allow(l, t) ==
    LET tokens == Advance(l, t)
        ok == tokens >= TokenUnit
    IN  [ok |-> ok,
         limiter |-> [l EXCEPT !.tokens = IF ok THEN tokens - TokenUnit ELSE tokens,
                               !.last = t]]

\* the whole tokens a bucket would hold at time t
WholeTokens(l, t) == Advance(l, t) \div TokenUnit

(***************************************************************************)
(* The heap of limiters.  An object is named by the tier and the key it    *)
(* was created for and by a number that tells it from the other live       *)
(* objects created for that key; an object no registry entry and no        *)
(* request refers to is collected.                                         *)
(***************************************************************************)
NoLimiter == <<"nil", <<>>, "", 0>>

NewId(heap, tier, key, par) ==
    <<tier, key, par,
      CHOOSE n \in 0..Cardinality(DOMAIN heap) :
          /\ <<tier, key, par, n>> \notin DOMAIN heap
          /\ \A m \in 0..(n - 1) : <<tier, key, par, m>> \in DOMAIN heap>>

Put(f, k, v) == [x \in DOMAIN f \cup {k} |-> IF x = k THEN v ELSE f[x]]

Remove(f, ks) == [x \in DOMAIN f \ ks |-> f[x]]

Referenced(gv, pv, gl, pl) ==
    {gv[k].limiter : k \in DOMAIN gv}
        \cup UNION {{pv[k][q].limiter : q \in DOMAIN pv[k]} : k \in DOMAIN pv}
        \cup {gl[w] : w \in DOMAIN gl} \cup {pl[w] : w \in DOMAIN pl}

Collect(heap, gv, pv, gl, pl) ==
    [i \in DOMAIN heap \cap Referenced(gv, pv, gl, pl) |-> heap[i]]

(***************************************************************************)
(* The registries.                                                         *)
(***************************************************************************)
\* a GetGlobalLimiter that does not look the key up and always makes a new bucket
GetGlobalLimiterAlwaysNew(gv, heap, key, t, cfg) ==
    LET c == GetGlobalRateLimiterConfig(cfg)
        id == NewId(heap, "global", key, "")
    IN  [visitors |-> Put(gv, key, [limiter |-> id, lastSeen |-> t]),
         heap |-> Put(heap, id, NewLimiter(c.rate, c.burst, t)),
         limiter |-> id]

\* a GetGlobalLimiter that leaves the lastSeen of a client it finds as it was
GetGlobalLimiterUnrefreshed(gv, heap, key, t, cfg) ==
    IF key \notin DOMAIN gv
    THEN LET c == GetGlobalRateLimiterConfig(cfg)
             id == NewId(heap, "global", key, "")
         IN  [visitors |-> Put(gv, key, [limiter |-> id, lastSeen |-> t]),
              heap |-> Put(heap, id, NewLimiter(c.rate, c.burst, t)),
              limiter |-> id]
    ELSE [visitors |-> gv, heap |-> heap, limiter |-> gv[key].limiter]

\* GetGlobalLimiter, between Lock and Unlock
\* one global entry for all clients
GetGlobalLimiterShared(gv, heap, key, t, cfg) ==
    IF <<>> \notin DOMAIN gv
    THEN LET c == GetGlobalRateLimiterConfig(cfg)
             id == NewId(heap, "global", <<>>, "")
         IN  [visitors |-> Put(gv, <<>>, [limiter |-> id, lastSeen |-> t]),
              heap |-> Put(heap, id, NewLimiter(c.rate, c.burst, t)),
              limiter |-> id]
    ELSE [visitors |-> [gv EXCEPT ![<<>>].lastSeen = t],
          heap |-> heap,
          limiter |-> gv[<<>>].limiter]

GetGlobalLimiter(gv, heap, key, t, cfg) ==
    IF key \notin DOMAIN gv
    THEN LET c == GetGlobalRateLimiterConfig(cfg)
             id == NewId(heap, "global", key, "")
         IN  [visitors |-> Put(gv, key, [limiter |-> id, lastSeen |-> t]),
              heap |-> Put(heap, id, NewLimiter(c.rate, c.burst, t)),
              limiter |-> id]
    ELSE [visitors |-> [gv EXCEPT ![key].lastSeen = t],
          heap |-> heap,
          limiter |-> gv[key].limiter]

\* a getParamLimiter that does not look the key up and always makes a new bucket
getParamLimiterAlwaysNew(pv, heap, key, par, t, cfg) ==
    LET pv1 == IF key \notin DOMAIN pv THEN Put(pv, key, <<>>) ELSE pv
        c == GetParamRateLimiterConfig(cfg)
        id == NewId(heap, "param", key, par)
    IN  [visitors |-> [pv1 EXCEPT ![key] = Put(@, par, [limiter |-> id, lastSeen |-> t])],
         heap |-> Put(heap, id, NewLimiter(c.rate, c.burst, t)),
         limiter |-> id]

\* getParamLimiter, between Lock and Unlock
getParamLimiter(pv, heap, key, par, t, cfg) ==
    LET pv1 == IF key \notin DOMAIN pv THEN Put(pv, key, <<>>) ELSE pv
    IN  IF par \notin DOMAIN pv1[key]
        THEN LET c == GetParamRateLimiterConfig(cfg)
                 id == NewId(heap, "param", key, par)
             IN  [visitors |-> [pv1 EXCEPT ![key] =
                                   Put(@, par, [limiter |-> id, lastSeen |-> t])],
                  heap |-> Put(heap, id, NewLimiter(c.rate, c.burst, t)),
                  limiter |-> id]
        ELSE [visitors |-> [pv1 EXCEPT ![key][par].lastSeen = t],
              heap |-> heap,
              limiter |-> pv1[key][par].limiter]

\* an entry counted as idle already when its age equals the timeout
StaleAtTimeout(v, t, timeout) == t - v.lastSeen >= timeout

\* every entry counted as idle, whatever its age
StaleAtOnce(v, t, timeout) == TRUE

\* time.Since(v.lastSeen) > timeout
Stale(v, t, timeout) == t - v.lastSeen > timeout

\* a pass that drops every client, whatever the age of its entry
cleanupGlobalVisitorsOnceAll(gv, t, cfg) == Remove(gv, DOMAIN gv)

\* cleanupGlobalVisitorsOnce, between Lock and Unlock
cleanupGlobalVisitorsOnce(gv, t, cfg) ==
    LET timeout == GetRateLimiterCleanupTimeout(cfg)
    IN  Remove(gv, {k \in DOMAIN gv : Stale(gv[k], t, timeout)})

\* a pass that drops every entry, whatever its age
cleanupParamVisitorsOnceAll(pv, t, cfg) == Remove(pv, DOMAIN pv)

\* a pass that leaves the inner map of a client in place when it is empty
cleanupParamVisitorsOnceUnpruned(pv, t, cfg) ==
    LET timeout == GetRateLimiterCleanupTimeout(cfg)
    IN  [k \in DOMAIN pv |->
            Remove(pv[k], {q \in DOMAIN pv[k] : Stale(pv[k][q], t, timeout)})]

\* cleanupParamVisitorsOnce, between Lock and Unlock
cleanupParamVisitorsOnce(pv, t, cfg) ==
    LET timeout == GetRateLimiterCleanupTimeout(cfg)
        swept == [k \in DOMAIN pv |->
                     Remove(pv[k], {q \in DOMAIN pv[k] : Stale(pv[k][q], t, timeout)})]
    IN  Remove(swept, {k \in DOMAIN swept : DOMAIN swept[k] = {}})

(***************************************************************************)
(* Requests and responses.  Every request is served by a goroutine of its  *)
(* own; the goroutines are named in the order in which requests arrive.    *)
(***************************************************************************)
WorkerOrder == <<"w1", "w2", "w3", "w4", "w5", "w6", "w7", "w8", "w9", "w10", "w11",
                 "w12">>
Workers == {WorkerOrder[i] : i \in DOMAIN WorkerOrder}
Rank(w) == CHOOSE i \in DOMAIN WorkerOrder : WorkerOrder[i] = w
Sweepers == {"global", "param"}

\* the characters of the addresses and header values used as inputs
S(str) == IF str = "a:1" THEN <<"a", ":", "1">>
          ELSE IF str = "a:2" THEN <<"a", ":", "2">>
          ELSE IF str = "b:1" THEN <<"b", ":", "1">>
          ELSE IF str = "a" THEN <<"a">>
          ELSE IF str = "b" THEN <<"b">>
          ELSE IF str = " b:1 ,a" THEN <<" ", "b", ":", "1", " ", ",", "a">>
          ELSE <<>>

Request(xff, remoteAddr, query) ==
    [xff |-> S(xff), remoteAddr |-> S(remoteAddr), query |-> query]

NoRequest == [xff |-> <<>>, remoteAddr |-> <<>>, query |-> <<>>]

NoResponse == [status |-> 0, contentType |-> "", error |-> "", message |-> "", next |-> 0]

\* a global-limit denial without the return of line 312: the handler runs as well
DenyGlobalThenNext ==
    [status |-> StatusTooManyRequests, contentType |-> "application/json",
     error |-> GlobalLimitError, message |-> GlobalLimitMessage, next |-> 1]

\* lines 304-311: the global-limit denial
DenyGlobalResponse ==
    [status |-> StatusTooManyRequests, contentType |-> "application/json",
     error |-> GlobalLimitError, message |-> GlobalLimitMessage, next |-> 0]

\* lines 315-322: the per-param denial
DenyParamResponse ==
    [status |-> StatusTooManyRequests, contentType |-> "application/json",
     error |-> ParamLimitError, message |-> ParamLimitMessage, next |-> 0]

\* line 325: next.ServeHTTP(w, r), nothing written by the middleware
AllowResponse == [NoResponse EXCEPT !.next = 1]

\* the parameter bucket evaluated before the global one
TierOrderParamFirst == <<"param", "global">>

\* the order in which RateLimitMiddleware evaluates the two buckets
TierOrder == <<"global", "param">>

TierLimiter(w, tier) == IF tier = "global" THEN globalLimiter[w] ELSE paramLimiter[w]

\* every denial reported as a denial of the global tier
TierDenialAlwaysGlobal(tier) == DenyGlobalResponse

TierDenial(tier) == IF tier = "global" THEN DenyGlobalResponse ELSE DenyParamResponse

Outcome(r) ==
    IF r.next > 0 /\ r.status = 0 THEN "ALLOW"
    ELSE IF r.next = 0 /\ r.message = GlobalLimitMessage THEN "DENY_GLOBAL"
    ELSE IF r.next = 0 /\ r.message = ParamLimitMessage THEN "DENY_PARAM"
    ELSE "NONE"

(***************************************************************************)
(* RateLimitMiddleware.                                                    *)
(***************************************************************************)
\* lines 295-300: the identity and the parameter key of the request
Receive(w, r) ==
    /\ pc[w] = "idle"
    /\ \A v \in Workers : Rank(v) < Rank(w) => pc[v] # "idle"
    /\ pc' = [pc EXCEPT ![w] = "lockGlobal"]
    /\ req' = [req EXCEPT ![w] = r]
    /\ ip' = [ip EXCEPT ![w] = getIP(r)]
    /\ param' = [param EXCEPT ![w] = ParamKeyOf(r)]
    /\ UNCHANGED <<settings, now, limiters, globalVisitors, paramVisitors, muGlobal,
                   muParam, globalLimiter, paramLimiter, resp, sweep, reset>>

\* a request that goes on to line 178 without waiting for muGlobal
LockGlobalBarging(w) ==
    /\ pc[w] = "lockGlobal"
    /\ muGlobal' = w
    /\ pc' = [pc EXCEPT ![w] = "getGlobal"]
    /\ UNCHANGED <<settings, now, limiters, globalVisitors, paramVisitors, muParam,
                   req, ip, param, globalLimiter, paramLimiter, resp, sweep, reset>>

\* line 176: muGlobal.Lock()
LockGlobal(w) ==
    /\ pc[w] = "lockGlobal"
    /\ muGlobal = "free"
    /\ muGlobal' = w
    /\ pc' = [pc EXCEPT ![w] = "getGlobal"]
    /\ UNCHANGED <<settings, now, limiters, globalVisitors, paramVisitors, muParam,
                   req, ip, param, globalLimiter, paramLimiter, resp, sweep, reset>>

\* a GetGlobalLimiter that returns without the deferred Unlock
GetGlobalHolding(w) ==
    /\ pc[w] = "getGlobal"
    /\ LET got == GetGlobalLimiter(globalVisitors, limiters, ip[w], now, settings)
       IN  /\ globalVisitors' = got.visitors
           /\ limiters' = got.heap
           /\ globalLimiter' = [globalLimiter EXCEPT ![w] = got.limiter]
    /\ pc' = [pc EXCEPT ![w] = "lockParam"]
    /\ UNCHANGED <<settings, now, paramVisitors, muGlobal, muParam, req, ip, param,
                   paramLimiter, resp, sweep, reset>>

\* lines 178-186 and the deferred Unlock
GetGlobal(w) ==
    /\ pc[w] = "getGlobal"
    /\ LET got == GetGlobalLimiter(globalVisitors, limiters, ip[w], now, settings)
       IN  /\ globalVisitors' = got.visitors
           /\ limiters' = got.heap
           /\ globalLimiter' = [globalLimiter EXCEPT ![w] = got.limiter]
    /\ muGlobal' = "free"
    /\ pc' = [pc EXCEPT ![w] = "lockParam"]
    /\ UNCHANGED <<settings, now, paramVisitors, muParam, req, ip, param, paramLimiter,
                   resp, sweep, reset>>

\* line 192: muParam.Lock()
LockParam(w) ==
    /\ pc[w] = "lockParam"
    /\ muParam = "free"
    /\ muParam' = w
    /\ pc' = [pc EXCEPT ![w] = "getParam"]
    /\ UNCHANGED <<settings, now, limiters, globalVisitors, paramVisitors, muGlobal,
                   req, ip, param, globalLimiter, paramLimiter, resp, sweep, reset>>

\* lines 194-205 and the deferred Unlock
\* the lookup without the deferred Unlock
GetParamHolding(w) ==
    /\ pc[w] = "getParam"
    /\ LET got == getParamLimiter(paramVisitors, limiters, ip[w], param[w], now, settings)
       IN  /\ paramVisitors' = got.visitors
           /\ limiters' = got.heap
           /\ paramLimiter' = [paramLimiter EXCEPT ![w] = got.limiter]
    /\ pc' = [pc EXCEPT ![w] = "check1"]
    /\ UNCHANGED <<settings, now, globalVisitors, muGlobal, muParam, req, ip, param,
                   globalLimiter, resp, sweep, reset>>

GetParam(w) ==
    /\ pc[w] = "getParam"
    /\ LET got == getParamLimiter(paramVisitors, limiters, ip[w], param[w], now, settings)
       IN  /\ paramVisitors' = got.visitors
           /\ limiters' = got.heap
           /\ paramLimiter' = [paramLimiter EXCEPT ![w] = got.limiter]
    /\ muParam' = "free"
    /\ pc' = [pc EXCEPT ![w] = "check1"]
    /\ UNCHANGED <<settings, now, globalVisitors, muGlobal, req, ip, param,
                   globalLimiter, resp, sweep, reset>>

\* the request is over: the goroutine's references to its limiters are gone
Finished(w, heap) ==
    /\ pc' = [pc EXCEPT ![w] = "done"]
    /\ globalLimiter' = [globalLimiter EXCEPT ![w] = NoLimiter]
    /\ paramLimiter' = [paramLimiter EXCEPT ![w] = NoLimiter]
    /\ limiters' = Collect(heap, globalVisitors, paramVisitors,
                           globalLimiter', paramLimiter')

\* a first evaluation that grants without taking the token
CheckFirstUncharged(w) ==
    /\ pc[w] = "check1"
    /\ LET id == TierLimiter(w, TierOrder[1])
           res == Allow(limiters[id], now)
           heap == IF res.ok THEN limiters ELSE [limiters EXCEPT ![id] = res.limiter]
       IN  IF res.ok
           THEN /\ limiters' = heap
                /\ pc' = [pc EXCEPT ![w] = "check2"]
                /\ UNCHANGED <<globalLimiter, paramLimiter, resp>>
           ELSE /\ resp' = [resp EXCEPT ![w] = TierDenial(TierOrder[1])]
                /\ Finished(w, heap)
    /\ UNCHANGED <<settings, now, globalVisitors, paramVisitors, muGlobal, muParam,
                   req, ip, param, sweep, reset>>

\* a first evaluation that evaluates the second bucket as well before it denies
CheckFirstEvaluatingBoth(w) ==
    /\ pc[w] = "check1"
    /\ LET id == TierLimiter(w, TierOrder[1])
           second == TierLimiter(w, TierOrder[2])
           res == Allow(limiters[id], now)
           heap == [limiters EXCEPT ![id] = res.limiter]
       IN  IF res.ok
           THEN /\ limiters' = heap
                /\ pc' = [pc EXCEPT ![w] = "check2"]
                /\ UNCHANGED <<globalLimiter, paramLimiter, resp>>
           ELSE /\ resp' = [resp EXCEPT ![w] = TierDenial(TierOrder[1])]
                /\ Finished(w, [heap EXCEPT ![second] = Allow(heap[second], now).limiter])
    /\ UNCHANGED <<settings, now, globalVisitors, paramVisitors, muGlobal, muParam,
                   req, ip, param, sweep, reset>>

\* lines 303-313: the first bucket evaluated; a denial ends the request
CheckFirst(w) ==
    /\ pc[w] = "check1"
    /\ LET id == TierLimiter(w, TierOrder[1])
           res == Allow(limiters[id], now)
           heap == [limiters EXCEPT ![id] = res.limiter]
       IN  IF res.ok
           THEN /\ limiters' = heap
                /\ pc' = [pc EXCEPT ![w] = "check2"]
                /\ UNCHANGED <<globalLimiter, paramLimiter, resp>>
           ELSE /\ resp' = [resp EXCEPT ![w] = TierDenial(TierOrder[1])]
                /\ Finished(w, heap)
    /\ UNCHANGED <<settings, now, globalVisitors, paramVisitors, muGlobal, muParam,
                   req, ip, param, sweep, reset>>

\* a second evaluation that grants without taking the token
CheckSecondUncharged(w) ==
    /\ pc[w] = "check2"
    /\ LET id == TierLimiter(w, TierOrder[2])
           res == Allow(limiters[id], now)
           heap == IF res.ok THEN limiters ELSE [limiters EXCEPT ![id] = res.limiter]
       IN  /\ resp' = [resp EXCEPT ![w] =
                          IF res.ok THEN AllowResponse ELSE TierDenial(TierOrder[2])]
           /\ Finished(w, heap)
    /\ UNCHANGED <<settings, now, globalVisitors, paramVisitors, muGlobal, muParam,
                   req, ip, param, sweep, reset>>

\* a second evaluation that gives the token of the first one back on a denial
CheckSecondRefunding(w) ==
    /\ pc[w] = "check2"
    /\ LET id == TierLimiter(w, TierOrder[2])
           first == TierLimiter(w, TierOrder[1])
           res == Allow(limiters[id], now)
           heap == [limiters EXCEPT
                       ![id] = res.limiter,
                       ![first].tokens = IF res.ok THEN @ ELSE @ + TokenUnit]
       IN  /\ resp' = [resp EXCEPT ![w] =
                          IF res.ok THEN AllowResponse ELSE TierDenial(TierOrder[2])]
           /\ Finished(w, heap)
    /\ UNCHANGED <<settings, now, globalVisitors, paramVisitors, muGlobal, muParam,
                   req, ip, param, sweep, reset>>

\* lines 314-325: the second bucket evaluated, then the wrapped handler
CheckSecond(w) ==
    /\ pc[w] = "check2"
    /\ LET id == TierLimiter(w, TierOrder[2])
           res == Allow(limiters[id], now)
           heap == [limiters EXCEPT ![id] = res.limiter]
       IN  /\ resp' = [resp EXCEPT ![w] =
                          IF res.ok THEN AllowResponse ELSE TierDenial(TierOrder[2])]
           /\ Finished(w, heap)
    /\ UNCHANGED <<settings, now, globalVisitors, paramVisitors, muGlobal, muParam,
                   req, ip, param, sweep, reset>>

(***************************************************************************)
(* The two cleanup goroutines.                                             *)
(***************************************************************************)
\* lines 240, 210-211: time.Sleep(time.Minute) is over, then muGlobal.Lock()
SweepLockGlobal ==
    /\ sweep["global"].pc = "sleep"
    /\ now - sweep["global"].since >= Minute
    /\ muGlobal = "free"
    /\ muGlobal' = "global"
    /\ sweep' = [sweep EXCEPT !["global"].pc = "scan"]
    /\ UNCHANGED <<settings, now, limiters, globalVisitors, paramVisitors, muParam, pc,
                   req, ip, param, globalLimiter, paramLimiter, resp, reset>>

\* a pass that goes back to sleep without line 217, muGlobal still held
SweepScanGlobalHolding ==
    /\ sweep["global"].pc = "scan"
    /\ globalVisitors' = cleanupGlobalVisitorsOnce(globalVisitors, now, settings)
    /\ limiters' = Collect(limiters, globalVisitors', paramVisitors,
                           globalLimiter, paramLimiter)
    /\ sweep' = [sweep EXCEPT !["global"] = [pc |-> "sleep", since |-> now]]
    /\ UNCHANGED <<settings, now, paramVisitors, muGlobal, muParam, pc, req, ip,
                   param, globalLimiter, paramLimiter, resp, reset>>

\* lines 212-217: the scan, Unlock, and the next sleep
\* one pass over both registries
SweepScanGlobalBoth ==
    /\ sweep["global"].pc = "scan"
    /\ globalVisitors' = cleanupGlobalVisitorsOnce(globalVisitors, now, settings)
    /\ paramVisitors' = cleanupParamVisitorsOnce(paramVisitors, now, settings)
    /\ limiters' = Collect(limiters, globalVisitors', paramVisitors',
                           globalLimiter, paramLimiter)
    /\ muGlobal' = "free"
    /\ sweep' = [sweep EXCEPT !["global"] = [pc |-> "sleep", since |-> now]]
    /\ UNCHANGED <<settings, now, muParam, pc, req, ip, param,
                   globalLimiter, paramLimiter, resp, reset>>

SweepScanGlobal ==
    /\ sweep["global"].pc = "scan"
    /\ globalVisitors' = cleanupGlobalVisitorsOnce(globalVisitors, now, settings)
    /\ limiters' = Collect(limiters, globalVisitors', paramVisitors,
                           globalLimiter, paramLimiter)
    /\ muGlobal' = "free"
    /\ sweep' = [sweep EXCEPT !["global"] = [pc |-> "sleep", since |-> now]]
    /\ UNCHANGED <<settings, now, paramVisitors, muParam, pc, req, ip, param,
                   globalLimiter, paramLimiter, resp, reset>>

\* lines 248, 222-223: time.Sleep(time.Minute) is over, then muParam.Lock()
SweepLockParam ==
    /\ sweep["param"].pc = "sleep"
    /\ now - sweep["param"].since >= Minute
    /\ muParam = "free"
    /\ muParam' = "param"
    /\ sweep' = [sweep EXCEPT !["param"].pc = "scan"]
    /\ UNCHANGED <<settings, now, limiters, globalVisitors, paramVisitors, muGlobal,
                   pc, req, ip, param, globalLimiter, paramLimiter, resp, reset>>

\* lines 224-234: the scan, Unlock, and the next sleep
SweepScanParam ==
    /\ sweep["param"].pc = "scan"
    /\ paramVisitors' = cleanupParamVisitorsOnce(paramVisitors, now, settings)
    /\ limiters' = Collect(limiters, globalVisitors, paramVisitors',
                           globalLimiter, paramLimiter)
    /\ muParam' = "free"
    /\ sweep' = [sweep EXCEPT !["param"] = [pc |-> "sleep", since |-> now]]
    /\ UNCHANGED <<settings, now, globalVisitors, muGlobal, pc, req, ip, param,
                   globalLimiter, paramLimiter, resp, reset>>

(***************************************************************************)
(* ResetVisitors.                                                          *)
(***************************************************************************)
ResetCall ==
    /\ reset = "idle"
    /\ reset' = "lockGlobal"
    /\ UNCHANGED <<settings, now, limiters, globalVisitors, paramVisitors, muGlobal,
                   muParam, pc, req, ip, param, globalLimiter, paramLimiter, resp,
                   sweep>>

\* line 261
ResetLockGlobal ==
    /\ reset = "lockGlobal"
    /\ muGlobal = "free"
    /\ muGlobal' = "reset"
    /\ reset' = "clearGlobal"
    /\ UNCHANGED <<settings, now, limiters, globalVisitors, paramVisitors, muParam, pc,
                   req, ip, param, globalLimiter, paramLimiter, resp, sweep>>

\* a ResetVisitors that leaves the entries of globalVisitors in place
ResetKeepGlobal ==
    /\ reset = "clearGlobal"
    /\ muGlobal' = "free"
    /\ reset' = "lockParam"
    /\ UNCHANGED <<settings, now, limiters, globalVisitors, paramVisitors, muParam, pc,
                   req, ip, param, globalLimiter, paramLimiter, resp, sweep>>

\* lines 262-265
ResetClearGlobal ==
    /\ reset = "clearGlobal"
    /\ globalVisitors' = <<>>
    /\ limiters' = Collect(limiters, globalVisitors', paramVisitors,
                           globalLimiter, paramLimiter)
    /\ muGlobal' = "free"
    /\ reset' = "lockParam"
    /\ UNCHANGED <<settings, now, paramVisitors, muParam, pc, req, ip, param,
                   globalLimiter, paramLimiter, resp, sweep>>

\* line 266
ResetLockParam ==
    /\ reset = "lockParam"
    /\ muParam = "free"
    /\ muParam' = "reset"
    /\ reset' = "clearParam"
    /\ UNCHANGED <<settings, now, limiters, globalVisitors, paramVisitors, muGlobal,
                   pc, req, ip, param, globalLimiter, paramLimiter, resp, sweep>>

\* a ResetVisitors that leaves the entries of paramVisitors in place
ResetKeepParam ==
    /\ reset = "clearParam"
    /\ muParam' = "free"
    /\ reset' = "idle"
    /\ UNCHANGED <<settings, now, limiters, globalVisitors, paramVisitors, muGlobal,
                   pc, req, ip, param, globalLimiter, paramLimiter, resp, sweep>>

\* lines 267-270
ResetClearParam ==
    /\ reset = "clearParam"
    /\ paramVisitors' = <<>>
    /\ limiters' = Collect(limiters, globalVisitors, paramVisitors',
                           globalLimiter, paramLimiter)
    /\ muParam' = "free"
    /\ reset' = "idle"
    /\ UNCHANGED <<settings, now, globalVisitors, muGlobal, pc, req, ip, param,
                   globalLimiter, paramLimiter, resp, sweep>>

(***************************************************************************)
(* The weather repository (internal/repository/weather_repository.go): a   *)
(* cache-aside read through Redis in front of the OpenWeatherMap API.      *)
(* A JSON text is the value it encodes, and a text that is no JSON is a    *)
(* value that encodes nothing.  An error is its text, no error is "".      *)
(***************************************************************************)
ErrLocationNotFound == "location not found"
ErrAPIKeyMissing == "API key missing"
ErrExternalAPI == "external API error"
CityNotFound == "city not found"
RedisNil == "redis: nil"
RedisDown == "dial tcp: connection refused"
SyntaxError == "invalid character"
StatusOK == 200
StatusBadRequest == 400
StatusNotFound == 404
StatusMethodNotAllowed == 405
StatusInternalServerError == 500

\* json.Marshal, and a text that is no JSON
Marshal(v) == [json |-> TRUE, value |-> v]
Garbage == [json |-> FALSE, value |-> <<>>]

\* a field of a decoded JSON object, or the zero value where the object has none
Field(v, name, zero) == IF name \in DOMAIN v THEN v[name] ELSE zero

\* model.WeatherResponse, and a nil *model.WeatherResponse
WeatherResponse(l, t, d, c) ==
    [location |-> l, temperature |-> t, description |-> d, cached |-> c]
Nil == [nil |-> TRUE]

\* json.Unmarshal into a model.WeatherResponse
UnmarshalWeather(body) ==
    IF ~body.json THEN [err |-> SyntaxError, weather |-> WeatherResponse("", 0, "", FALSE)]
    ELSE [err |-> "",
          weather |-> WeatherResponse(Field(body.value, "location", ""),
                                      Field(body.value, "temperature", 0),
                                      Field(body.value, "description", ""),
                                      Field(body.value, "cached", FALSE))]

\* json.Decode into a model.OpenWeatherMapResponse: name, main.temp and weather
UnmarshalOpenWeatherMap(body) ==
    IF ~body.json THEN [err |-> SyntaxError, name |-> "", temp |-> 0, weather |-> <<>>]
    ELSE [err |-> "",
          name |-> Field(body.value, "name", ""),
          temp |-> Field(Field(body.value, "main", [temp |-> 0]), "temp", 0),
          weather |-> Field(body.value, "weather", <<>>)]

\* json.Decode into the error reply of the provider: its message
UnmarshalErrorReply(body) ==
    IF ~body.json THEN [err |-> SyntaxError, message |-> ""]
    ELSE [err |-> "", message |-> Field(body.value, "message", "")]

\* config.GetOpenWeatherMapAPIKey and config.GetCacheExpiration
GetOpenWeatherMapAPIKey(e) == e.apiKey
GetCacheExpiration(e) == GetString(e.expiration)

\* the Redis key of a location
CacheKey(location) == "weather:" \o location

\* a key that Redis holds and that has not expired
Never == -1
Live(store, key, t) ==
    /\ key \in DOMAIN store
    /\ store[key].expires = Never \/ t < store[key].expires

\* redisClient.Get(ctx, key).Result()
RedisGet(store, key, t, up) ==
    IF ~up THEN [err |-> RedisDown, val |-> Garbage]
    ELSE IF ~Live(store, key, t) THEN [err |-> RedisNil, val |-> Garbage]
    ELSE [err |-> "", val |-> store[key].body]

\* redisClient.Set(ctx, key, body, dur): no expiry unless dur is positive
RedisSet(store, key, body, dur, t, up) ==
    IF ~up THEN store
    ELSE Put(store, key, [body |-> body, expires |-> IF dur > 0 THEN t + dur ELSE Never])

\* getFromCache that never marks what it returns
getFromCacheUnmarked(store, location, t, up) ==
    LET val == RedisGet(store, CacheKey(location), t, up)
        dec == UnmarshalWeather(val.val)
    IN  IF val.err # "" THEN [weather |-> Nil, err |-> val.err, val |-> val]
        ELSE IF dec.err # "" THEN [weather |-> Nil, err |-> dec.err, val |-> val]
        ELSE [weather |-> dec.weather, err |-> "", val |-> val]

\* getFromCache: its result, and what Redis gave it
getFromCache(store, location, t, up) ==
    LET val == RedisGet(store, CacheKey(location), t, up)
        dec == UnmarshalWeather(val.val)
    IN  IF val.err # "" THEN [weather |-> Nil, err |-> val.err, val |-> val]
        ELSE IF dec.err # "" THEN [weather |-> Nil, err |-> dec.err, val |-> val]
        ELSE [weather |-> [dec.weather EXCEPT !.cached = TRUE], err |-> "", val |-> val]

\* what httpClient.Get may give: a transport error, or a status and a body
TransportError == [err |-> "connection reset", status |-> 0, body |-> Garbage]
Reply(status, body) == [err |-> "", status |-> status, body |-> body]

\* fetchFromExternalAPI once it has a key: the request and what it makes of the answer
Requested(location, answer) ==
    LET errResp == UnmarshalErrorReply(answer.body)
        data == UnmarshalOpenWeatherMap(answer.body)
    IN  IF answer.err # ""
        THEN [weather |-> Nil, err |-> ErrExternalAPI, asked |-> TRUE]
        ELSE IF answer.status # StatusOK
        THEN IF answer.status = StatusNotFound
             THEN IF errResp.err = "" /\ errResp.message # ""
                  THEN [weather |-> Nil, err |-> errResp.message, asked |-> TRUE]
                  ELSE [weather |-> Nil, err |-> CityNotFound, asked |-> TRUE]
             ELSE [weather |-> Nil, err |-> ErrExternalAPI, asked |-> TRUE]
        ELSE IF data.err # ""
        THEN [weather |-> Nil, err |-> data.err, asked |-> TRUE]
        ELSE [weather |-> WeatherResponse(data.name, data.temp,
                                          IF Len(data.weather) > 0
                                          THEN data.weather[1].description ELSE "",
                                          FALSE),
              err |-> "", asked |-> TRUE]

\* fetchFromExternalAPI that asks the provider whether or not it has a key
fetchFromExternalAPIKeyless(e, location, answer) == Requested(location, answer)

\* fetchFromExternalAPI: its result, and whether it called the provider
fetchFromExternalAPI(e, location, answer) ==
    IF GetOpenWeatherMapAPIKey(e) = ""
    THEN [weather |-> Nil, err |-> ErrAPIKeyMissing, asked |-> FALSE]
    ELSE Requested(location, answer)

\* cacheWeather: the store after it
cacheWeather(store, e, location, w, t, up) ==
    LET parsed == ParseDuration(GetCacheExpiration(e))
        dur == IF ~parsed.ok THEN 10 * Minute ELSE parsed.dur
    IN  RedisSet(store, CacheKey(location), Marshal(w), dur, t, up)

\* the calls of GetWeather, in the order in which a sequential caller makes them
CallOrder == <<"g1", "g2", "g3", "g4">>
Callers == {CallOrder[i] : i \in DOMAIN CallOrder}
CallRank(c) == CHOOSE i \in DOMAIN CallOrder : CallOrder[i] = c

\* no answer of the provider
NoAnswer == [err |-> "", status |-> 0, body |-> Garbage]

\* a call not made yet: its position, its locals, what Redis and the provider
\* gave it, how often it has asked the provider and written to the cache, and
\* when it read and wrote the cache
NoCall ==
    [pc |-> "idle", location |-> "", weather |-> Nil, err |-> "",
     val |-> [err |-> "", val |-> Garbage], resp |-> NoAnswer, asked |-> 0,
     sets |-> 0, readAt |-> -1, wroteAt |-> -1]

\* GetWeather is called
GetWeather(c, location) ==
    /\ call[c].pc = "idle"
    /\ call' = [call EXCEPT ![c] = [@ EXCEPT !.pc = "read", !.location = location]]
    /\ UNCHANGED <<env, cache, handler>>

\* GetWeather that goes on to the provider with what the cache holds
ReadCacheAndFetch(c, up) ==
    /\ call[c].pc = "read"
    /\ LET cached == getFromCache(cache, call[c].location, now, up)
       IN  call' = [call EXCEPT ![c] =
                      [@ EXCEPT !.pc = "fetch", !.weather = cached.weather,
                                !.val = cached.val, !.readAt = now]]
    /\ UNCHANGED <<env, cache, handler>>

\* GetWeather tries the cache and returns what it holds
ReadCache(c, up) ==
    /\ call[c].pc = "read"
    /\ LET cached == getFromCache(cache, call[c].location, now, up)
       IN  call' = [call EXCEPT ![c] =
                      IF cached.err = ""
                      THEN [@ EXCEPT !.pc = "done", !.weather = cached.weather,
                                     !.val = cached.val, !.readAt = now]
                      ELSE [@ EXCEPT !.pc = "fetch", !.val = cached.val,
                                     !.readAt = now]]
    /\ UNCHANGED <<env, cache, handler>>

\* GetWeather asks the provider and returns its error
Fetch(c, answer) ==
    /\ call[c].pc = "fetch"
    /\ LET got == fetchFromExternalAPI(env, call[c].location, answer)
           n == IF got.asked THEN 1 ELSE 0
       IN  call' = [call EXCEPT ![c] =
                      IF got.err # ""
                      THEN [@ EXCEPT !.pc = "done", !.err = got.err, !.asked = @ + n,
                                     !.resp = IF got.asked THEN answer ELSE @]
                      ELSE [@ EXCEPT !.pc = "write", !.weather = got.weather,
                                     !.asked = @ + n, !.resp = answer]]
    /\ UNCHANGED <<env, cache, handler>>

\* GetWeather caches what the provider gave and returns it
Store(c, up) ==
    /\ call[c].pc = "write"
    /\ cache' = cacheWeather(cache, env, call[c].location, call[c].weather, now, up)
    /\ call' = [call EXCEPT ![c] = [@ EXCEPT !.pc = "done", !.sets = @ + 1,
                                             !.wroteAt = IF up THEN now ELSE @]]
    /\ UNCHANGED <<env, handler>>

(***************************************************************************)
(* The weather handler (internal/handler/weather_handler.go).  A request   *)
(* is its method and its query, <<>> without a location and <<v>> with     *)
(* location v.  The weather service is an interface: a call of it returns  *)
(* whatever an implementation may return.                                  *)
(***************************************************************************)
MethodGet == "GET"
MethodNotAllowedError == "Method not allowed"
MissingLocationError == "Missing 'location' query parameter"
FetchError == "Failed to fetch weather data"

WeatherRequest(method, query) == [method |-> method, query |-> query]

\* writeJSONResponse of a model.Response, and the header Allow set before it
writeJSONResponse(allow, statusCode, data, error, message) ==
    [status |-> statusCode, contentType |-> "application/json", allow |-> allow,
     data |-> data, error |-> error, message |-> message]

NothingWritten == writeJSONResponse("", 0, Nil, "", "")

\* r.URL.Query().Get("location")
Location(r) == IF r.query = <<>> THEN "" ELSE r.query[1]

\* HandleWeather that looks at the location before the method
RejectedLocationFirst(r) ==
    IF Location(r) = ""
    THEN writeJSONResponse("", StatusBadRequest, Nil, MissingLocationError, "Error")
    ELSE IF r.method # MethodGet
    THEN writeJSONResponse(MethodGet, StatusMethodNotAllowed, Nil, MethodNotAllowedError,
                           "Error")
    ELSE NothingWritten

\* HandleWeather before it calls the service: the answer to a request it
\* rejects, nothing for a request it passes on
Rejected(r) ==
    IF r.method # MethodGet
    THEN writeJSONResponse(MethodGet, StatusMethodNotAllowed, Nil, MethodNotAllowedError,
                           "Error")
    ELSE IF Location(r) = ""
    THEN writeJSONResponse("", StatusBadRequest, Nil, MissingLocationError, "Error")
    ELSE NothingWritten

\* HandleWeather after the service has returned
Answered(res) ==
    IF res.err # ""
    THEN IF res.err = CityNotFound \/ res.err = ErrLocationNotFound
         THEN writeJSONResponse("", StatusNotFound, Nil, res.err, "Error")
         ELSE writeJSONResponse("", StatusInternalServerError, Nil, FetchError, "Error")
    ELSE writeJSONResponse("", StatusOK, res.weather, "", "Success")

Handlers == {"h1", "h2"}

\* a call of HandleWeather not made yet: its position, its request, how often it
\* has called the service and with which location, what the service returned
\* and what it has written
NoHandler ==
    [pc |-> "idle", r |-> WeatherRequest("", <<>>), calls |-> 0, location |-> "",
     res |-> [weather |-> Nil, err |-> ""], w |-> NothingWritten]

\* HandleWeather is called: it rejects the request or calls the service
HandleWeather(h, r) ==
    /\ handler[h].pc = "idle"
    /\ handler' = [handler EXCEPT ![h] =
                     IF Rejected(r) # NothingWritten
                     THEN [@ EXCEPT !.pc = "done", !.r = r, !.w = Rejected(r)]
                     ELSE [@ EXCEPT !.pc = "service", !.r = r, !.calls = @ + 1,
                                    !.location = Location(r)]]
    /\ UNCHANGED <<env, cache, call>>

\* the service returns and HandleWeather answers
ServiceReturns(h, res) ==
    /\ handler[h].pc = "service"
    /\ handler' = [handler EXCEPT ![h] =
                     [@ EXCEPT !.pc = "done", !.res = res, !.w = Answered(res)]]
    /\ UNCHANGED <<env, cache, call>>

(***************************************************************************)
(* Time.                                                                   *)
(***************************************************************************)
Tick ==
    /\ now < MaxTicks * TickSeconds
    /\ now' = now + TickSeconds
    /\ UNCHANGED <<settings, limiters, globalVisitors, paramVisitors, muGlobal,
                   muParam, pc, req, ip, param, globalLimiter, paramLimiter, resp,
                   sweep, reset>>

(***************************************************************************)
(* The running service.                                                    *)
(***************************************************************************)
Config(gr, gb, pr, pb, ct) ==
    [global_rate |-> gr, global_burst |-> gb, param_rate |-> pr, param_burst |-> pb,
     cleanup_timeout |-> ct]

\* nothing configured
DefaultConfig == Config(Absent, Absent, Absent, Absent, Absent)

\* a tight configuration: per client 2 per minute with a burst of 1, per parameter
\* 1 per minute with a burst of 1, idle entries dropped after 30 seconds
TightConfig == Config(Num(2), Num(1), Num(1), Num(1), Dur(30, "s"))

\* no API key and no cache expiration configured
NoEnv == [apiKey |-> "", expiration |-> Absent]

\* the test has issued no request and has not called ResetVisitors
NoDriver ==
    [arrival |-> [w \in Workers |-> -1], resets |-> 0, overlap |-> FALSE,
     quiet |-> FALSE,
     evaluated |-> [w \in Workers |-> [tier \in {"global", "param"} |-> -1]],
     late |-> FALSE, locks |-> <<>>, decisions |-> <<>>,
     shadow |-> <<>>, expected |-> [w \in Workers |-> "NONE"]]

InitWith(cfgs) ==
    /\ settings \in cfgs
    /\ now = 0
    /\ limiters = <<>>
    /\ globalVisitors = <<>>
    /\ paramVisitors = <<>>
    /\ muGlobal = "free"
    /\ muParam = "free"
    /\ pc = [w \in Workers |-> "idle"]
    /\ req = [w \in Workers |-> NoRequest]
    /\ ip = [w \in Workers |-> <<>>]
    /\ param = [w \in Workers |-> ""]
    /\ globalLimiter = [w \in Workers |-> NoLimiter]
    /\ paramLimiter = [w \in Workers |-> NoLimiter]
    /\ resp = [w \in Workers |-> NoResponse]
    /\ sweep = [s \in Sweepers |-> [pc |-> "sleep", since |-> 0]]
    /\ reset = "idle"
    /\ driver = NoDriver
    /\ env = NoEnv
    /\ cache = <<>>
    /\ call = [c \in Callers |-> NoCall]
    /\ handler = [h \in Handlers |-> NoHandler]

\* the steps of a request after its arrival
Handle(w) ==
    \/ LockGlobal(w)
    \/ GetGlobal(w)
    \/ LockParam(w)
    \/ GetParam(w)
    \/ CheckFirst(w)
    \/ CheckSecond(w)

Cleanup ==
    \/ SweepLockGlobal
    \/ SweepScanGlobal
    \/ SweepLockParam
    \/ SweepScanParam

ResetVisitors ==
    \/ ResetCall
    \/ ResetLockGlobal
    \/ ResetClearGlobal
    \/ ResetLockParam
    \/ ResetClearParam

(***************************************************************************)
(* The service in production: two requests of two clients in flight, the   *)
(* cleanup goroutines running, time passing.                               *)
(***************************************************************************)
ServiceWorkers == {"w1", "w2"}

ServiceRequests ==
    {Request("", "a:1", <<"x">>), Request("", "a:2", <<>>),
     Request(" b:1 ,a", "a:1", <<"x">>)}

Init == InitWith({TightConfig})

Next ==
    \/ \E w \in ServiceWorkers : \E r \in ServiceRequests :
         Receive(w, r) /\ UNCHANGED others
    \/ \E w \in ServiceWorkers : Handle(w) /\ UNCHANGED others
    \/ Cleanup /\ UNCHANGED others
    \/ Tick /\ UNCHANGED others

Spec == Init /\ [][Next]_vars

(***************************************************************************)
(* Requests issued one at a time with no time passing (the unit tests of   *)
(* the bursts): the next request arrives when the previous one is over.    *)
(***************************************************************************)
NoneInFlight == \A v \in Workers : pc[v] \in {"idle", "done"}

\* a configuration with a global burst of 3 and the defaults otherwise
SmallBurstConfig == Config(Absent, Num(3), Absent, Absent, Absent)

\* the parameter value of the i-th request of TestRateLimitMiddleware_GlobalBurst
Cities == <<"city0", "city1", "city2", "city3", "city4", "city5", "city6", "city7",
            "city8", "city9", "city10", "city11">>

\* the i-th request carries the i-th city, and comes from one of two clients
BurstRequests(w) ==
    {Request("", "a:1", <<Cities[Rank(w)]>>), Request("", "b:1", <<Cities[Rank(w)]>>)}

InitBurst == InitWith({DefaultConfig, SmallBurstConfig, TightConfig})

NextBurst ==
    \/ \E w \in Workers : \E r \in BurstRequests(w) :
         NoneInFlight /\ Receive(w, r) /\ UNCHANGED others
    \/ \E w \in Workers : Handle(w) /\ UNCHANGED others

SpecGlobalBurst == InitBurst /\ [][NextBurst]_vars

\* four requests one at a time, to the same or to different keys
BackToBackWorkers == {"w1", "w2", "w3", "w4"}

QuietRequests ==
    {Request("", "a:1", <<"x">>), Request("", "a:2", <<>>), Request("", "a:1", <<"">>),
     Request("", "b:1", <<"x">>)}

\* a global burst of 1, below the default burst of 2 of the parameter tier
NarrowGlobalConfig == Config(Absent, Num(1), Absent, Absent, Absent)

InitQuiet == InitWith({DefaultConfig, TightConfig, NarrowGlobalConfig})

NextBackToBack ==
    \/ \E w \in BackToBackWorkers : \E r \in QuietRequests :
         NoneInFlight /\ Receive(w, r) /\ UNCHANGED others
    \/ \E w \in BackToBackWorkers : Handle(w) /\ UNCHANGED others

SpecBackToBack == InitQuiet /\ [][NextBackToBack]_vars

(***************************************************************************)
(* Three requests in flight at once with no time passing.                  *)
(***************************************************************************)
QuietWorkers == {"w1", "w2", "w3"}

NextQuiet ==
    \/ \E w \in QuietWorkers : \E r \in QuietRequests :
         Receive(w, r) /\ UNCHANGED others
    \/ \E w \in QuietWorkers : Handle(w) /\ UNCHANGED others

SpecQuiet == InitQuiet /\ [][NextQuiet]_vars

(***************************************************************************)
(* Two requests in flight, with and without an X-Forwarded-For header.     *)
(***************************************************************************)
IdentityWorkers == {"w1", "w2"}

IdentityRequests ==
    {Request(xff, remoteAddr, <<"x">>) :
        xff \in {"", "a", "b", "b:1", " b:1 ,a"}, remoteAddr \in {"a:1", "b:1"}}

InitIdentity == InitWith({DefaultConfig})

NextIdentity ==
    \/ \E w \in IdentityWorkers : \E r \in IdentityRequests :
         Receive(w, r) /\ UNCHANGED others
    \/ \E w \in IdentityWorkers : Handle(w) /\ UNCHANGED others

SpecIdentity == InitIdentity /\ [][NextIdentity]_vars

(***************************************************************************)
(* One request and the cleanup goroutines under every kind of setting:     *)
(* absent, not a number or not a duration, zero, and proper values.        *)
(***************************************************************************)
NumberInputs == {Absent, Text("abc"), Num(0), Num(1), Num(3)}

DurationInputs ==
    {Absent, Empty, Text("abc"), Num(0), Num(5), Dur(0, "s"), Dur(30, "s"), Dur(1, "m")}

ConfigInputs ==
    {Config(r, b, Absent, Absent, ct) :
        r \in NumberInputs, b \in NumberInputs, ct \in DurationInputs}
    \cup {Config(Absent, Absent, r, b, ct) :
        r \in NumberInputs, b \in NumberInputs, ct \in DurationInputs}

InitConfig == InitWith(ConfigInputs)

NextConfig ==
    \/ \E r \in {Request("", "a:1", <<"x">>)} : Receive("w1", r) /\ UNCHANGED others
    \/ Handle("w1") /\ UNCHANGED others
    \/ Cleanup /\ UNCHANGED others
    \/ Tick /\ UNCHANGED others

SpecConfig == InitConfig /\ [][NextConfig]_vars

(***************************************************************************)
(* A test that issues two requests one at a time, calls ResetVisitors and  *)
(* issues the same two requests again after the same delay, while the      *)
(* cleanup goroutines run.  Time passes only between requests.             *)
(***************************************************************************)
FirstRun == {"w1", "w2"}
SecondRun == {"w3", "w4"}

\* the request of the first run that a request of the second run repeats, and
\* the request issued before a request
Original(w) == WorkerOrder[Rank(w) - Cardinality(FirstRun)]
Previous(w) == WorkerOrder[Rank(w) - 1]

ReplayRequests ==
    {Request("", "a:1", <<"x">>), Request("", "a:2", <<>>), Request("", "b:1", <<"x">>)}

\* both tiers refill within the cleanup timeout
PatientConfig == Config(Num(2), Num(1), Num(2), Num(1), Dur(30, "s"))

\* a cleanup timeout of one second and a parameter tier of 1 per minute
HastyConfig == Config(Absent, Absent, Num(1), Num(1), Dur(1, "s"))

InitReplay == InitWith({PatientConfig, HastyConfig})

\* a request of the first run
Issue(w, r) ==
    /\ NoneInFlight /\ reset = "idle" /\ driver.resets = 0
    /\ Receive(w, r)
    /\ driver' = [driver EXCEPT !.arrival[w] = now]
    /\ UNCHANGED weather

\* the call of ResetVisitors after the first run
CallReset ==
    /\ \A w \in FirstRun : pc[w] = "done"
    /\ driver.resets = 0
    /\ ResetCall
    /\ UNCHANGED others

\* ResetVisitors returns
ReturnReset ==
    /\ ResetClearParam
    /\ driver' = [driver EXCEPT !.resets = @ + 1]
    /\ UNCHANGED weather

\* a request of the second run: the request its original was, as long after the
\* request before it as its original was
Reissue(w) ==
    /\ NoneInFlight /\ reset = "idle" /\ driver.resets = 1
    /\ Previous(w) \in SecondRun =>
          now - driver.arrival[Previous(w)]
              = driver.arrival[Original(w)] - driver.arrival[Original(Previous(w))]
    /\ Receive(w, req[Original(w)])
    /\ driver' = [driver EXCEPT !.arrival[w] = now]
    /\ UNCHANGED weather

NextReplay ==
    \/ \E w \in FirstRun : \E r \in ReplayRequests : Issue(w, r)
    \/ \E w \in FirstRun \cup SecondRun : Handle(w) /\ UNCHANGED others
    \/ CallReset
    \/ (ResetLockGlobal \/ ResetClearGlobal \/ ResetLockParam) /\ UNCHANGED others
    \/ ReturnReset
    \/ \E w \in SecondRun : Reissue(w)
    \/ Cleanup /\ UNCHANGED others
    \/ NoneInFlight /\ Tick /\ UNCHANGED others

SpecReplay == InitReplay /\ [][NextReplay]_vars

(***************************************************************************)
(* ResetVisitors called while two requests may be in flight, and a third   *)
(* request after it has returned.  The test notes whether a request was in *)
(* flight at any moment of the call, and whether one was at its return.    *)
(***************************************************************************)
EarlyWorkers == {"w1", "w2"}
NextWorker == "w3"

InitReset == InitWith({DefaultConfig})

\* what the test notes at every step
Note ==
    /\ driver' = [driver EXCEPT
                     !.overlap = @ \/ (reset' # "idle" /\ ~NoneInFlight'),
                     !.resets = IF reset # "idle" /\ reset' = "idle" THEN @ + 1 ELSE @,
                     !.quiet = IF reset # "idle" /\ reset' = "idle" THEN NoneInFlight'
                               ELSE @]
    /\ UNCHANGED weather

NextReset ==
    \/ \E w \in EarlyWorkers : \E r \in ReplayRequests :
         driver.resets = 0 /\ Receive(w, r) /\ Note
    \/ \E w \in EarlyWorkers \cup {NextWorker} : Handle(w) /\ Note
    \/ driver.resets = 0 /\ ResetCall /\ Note
    \/ (ResetLockGlobal \/ ResetClearGlobal \/ ResetLockParam) /\ Note
    \/ ResetClearParam /\ Note
    \/ \E r \in ReplayRequests :
         /\ driver.resets = 1 /\ \A w \in EarlyWorkers : pc[w] = "done"
         /\ Receive(NextWorker, r) /\ Note

SpecReset == InitReset /\ [][NextReset]_vars

(***************************************************************************)
(* The weather endpoint on its own: the rate limiter stands still.         *)
(***************************************************************************)
\* the state the weather endpoint does not touch
rest == <<middleware, driver>>

InitWeather(envs, stores) ==
    /\ settings = DefaultConfig
    /\ now = 0
    /\ limiters = <<>>
    /\ globalVisitors = <<>>
    /\ paramVisitors = <<>>
    /\ muGlobal = "free"
    /\ muParam = "free"
    /\ pc = [w \in Workers |-> "idle"]
    /\ req = [w \in Workers |-> NoRequest]
    /\ ip = [w \in Workers |-> <<>>]
    /\ param = [w \in Workers |-> ""]
    /\ globalLimiter = [w \in Workers |-> NoLimiter]
    /\ paramLimiter = [w \in Workers |-> NoLimiter]
    /\ resp = [w \in Workers |-> NoResponse]
    /\ sweep = [s \in Sweepers |-> [pc |-> "sleep", since |-> 0]]
    /\ reset = "idle"
    /\ driver = NoDriver
    /\ env \in envs
    /\ cache \in stores
    /\ call = [c \in Callers |-> NoCall]
    /\ handler = [h \in Handlers |-> NoHandler]

Locations == {"a", "b"}

\* the provider's report for a city
Sunny(name) ==
    Reply(StatusOK, Marshal([name |-> name, main |-> [temp |-> 21],
                             weather |-> <<[description |-> "sunny"]>>]))

\* every earlier call has returned
Sequential(c) == \A d \in Callers : CallRank(d) < CallRank(c) => call[d].pc = "done"

(***************************************************************************)
(* A client that calls GetWeather four times, one call after another,      *)
(* while time passes.  Redis holds nothing at first; Redis and the         *)
(* provider work.                                                          *)
(***************************************************************************)
Expirations == {Absent, Text("soon"), Dur(0, "s"), Dur(30, "s"), Dur(1, "m")}

InitCacheAside == InitWeather({[apiKey |-> "k", expiration |-> x] : x \in Expirations}, {<<>>})

NextCacheAside ==
    \/ \E c \in Callers : \E l \in Locations :
         Sequential(c) /\ GetWeather(c, l) /\ UNCHANGED <<rest, now>>
    \/ \E c \in Callers : ReadCache(c, TRUE) /\ UNCHANGED <<rest, now>>
    \/ \E c \in Callers : Fetch(c, Sunny(call[c].location)) /\ UNCHANGED <<rest, now>>
    \/ \E c \in Callers : Store(c, TRUE) /\ UNCHANGED <<rest, now>>
    \/ Tick /\ UNCHANGED others

SpecCacheAside == InitCacheAside /\ [][NextCacheAside]_vars

(***************************************************************************)
(* The repository in production: two calls of GetWeather in flight for     *)
(* two locations, with or without an API key, a Redis that holds nothing,  *)
(* a record without expiry or a text that is no record for the first       *)
(* location and that may fail at every command, and a provider that may    *)
(* give every kind of answer.                                              *)
(***************************************************************************)
RepositoryCallers == {"g1", "g2"}

\* entries written by someone else
Stored(body) == [body |-> body, expires |-> Never]
Stores ==
    {<<>>,
     Put(<<>>, CacheKey("a"), Stored(Marshal(WeatherResponse("a", 20, "clear sky", TRUE)))),
     Put(<<>>, CacheKey("a"), Stored(Garbage))}

\* what the provider may answer to a request for a location
Answers(location) ==
    {TransportError,
     Sunny(location),
     Reply(StatusOK, Marshal([name |-> location, main |-> [temp |-> 5]])),
     Reply(StatusOK, Garbage),
     Reply(StatusNotFound, Marshal([cod |-> "404", message |-> CityNotFound])),
     Reply(StatusNotFound, Marshal([cod |-> "404", message |-> ""])),
     Reply(StatusNotFound, Garbage),
     Reply(StatusInternalServerError, Garbage)}

InitRepository ==
    InitWeather({[apiKey |-> k, expiration |-> Dur(30, "s")] : k \in {"", "k"}}, Stores)

NextRepository ==
    \/ \E c \in RepositoryCallers : \E l \in Locations :
         GetWeather(c, l) /\ UNCHANGED <<rest, now>>
    \/ \E c \in RepositoryCallers : \E up \in BOOLEAN :
         ReadCache(c, up) /\ UNCHANGED <<rest, now>>
    \/ \E c \in RepositoryCallers : \E answer \in Answers(call[c].location) :
         Fetch(c, answer) /\ UNCHANGED <<rest, now>>
    \/ \E c \in RepositoryCallers : \E up \in BOOLEAN :
         Store(c, up) /\ UNCHANGED <<rest, now>>
    \/ Tick /\ UNCHANGED others

SpecRepository == InitRepository /\ [][NextRepository]_vars

(***************************************************************************)
(* The handler in production: two requests in flight, of every method and  *)
(* with every kind of query, and a weather service that returns a record   *)
(* or an error.                                                            *)
(***************************************************************************)
Methods == {"GET", "HEAD", "POST", "DELETE"}
Queries == {<<>>, <<"">>, <<"a">>, <<"", "a">>}

\* what an implementation of WeatherServiceInterface may return
ServiceResults ==
    {[weather |-> WeatherResponse("a", 21, "sunny", FALSE), err |-> ""],
     [weather |-> WeatherResponse("a", 21, "sunny", TRUE), err |-> ""],
     [weather |-> Nil, err |-> ""],
     [weather |-> Nil, err |-> CityNotFound],
     [weather |-> Nil, err |-> ErrLocationNotFound],
     [weather |-> Nil, err |-> "City Not Found"],
     [weather |-> Nil, err |-> ErrAPIKeyMissing],
     [weather |-> Nil, err |-> ErrExternalAPI],
     [weather |-> Nil, err |-> SyntaxError]}

InitHandler == InitWeather({NoEnv}, {<<>>})

NextHandler ==
    \/ \E h \in Handlers : \E method \in Methods : \E query \in Queries :
         HandleWeather(h, WeatherRequest(method, query)) /\ UNCHANGED <<rest, now>>
    \/ \E h \in Handlers : \E res \in ServiceResults :
         ServiceReturns(h, res) /\ UNCHANGED <<rest, now>>

SpecHandler == InitHandler /\ [][NextHandler]_vars

(***************************************************************************)
(* Six requests of one client issued one at a time, for one location or    *)
(* each for another, with time passing between them.  The test notes when  *)
(* each request arrived.                                                   *)
(***************************************************************************)
RefillWorkers == {"w1", "w2", "w3", "w4", "w5", "w6"}

RefillRequests(w) ==
    {Request("", "a:1", <<"x">>), Request("", "a:1", <<Cities[Rank(w)]>>)}

\* per client 2 per minute with a burst of 2, per parameter 10 and 10
TwoPerClientConfig == Config(Num(2), Num(2), Num(10), Num(10), Absent)

\* per parameter 1 per minute with a burst of 1
SlowParamConfig == Config(Absent, Absent, Num(1), Num(1), Absent)

InitRefill == InitWith({DefaultConfig, TwoPerClientConfig, SlowParamConfig})

Arrive(w, r) ==
    /\ NoneInFlight
    /\ Receive(w, r)
    /\ driver' = [driver EXCEPT !.arrival[w] = now]
    /\ UNCHANGED weather

NextRefill ==
    \/ \E w \in RefillWorkers : \E r \in RefillRequests(w) : Arrive(w, r)
    \/ \E w \in RefillWorkers : Handle(w) /\ UNCHANGED others
    \/ NoneInFlight /\ Tick /\ UNCHANGED others

SpecRefill == InitRefill /\ [][NextRefill]_vars

(***************************************************************************)
(* The service under the default configuration over several minutes: nine  *)
(* requests of one client one after another at the start, each for another *)
(* location, then three requests in flight at once, the cleanup goroutines *)
(* running and whole minutes passing, at most one request being held up    *)
(* meanwhile.     The test notes when each request arrived and when each  *)
(* of its buckets was evaluated, and whether a request had a bucket        *)
(* evaluated later than the cleanup timeout after its arrival.             *)
(***************************************************************************)
WaitMinutes == 4
MaxWaits == 1

OpeningWorkers == {"w1", "w2", "w3", "w4", "w5", "w6", "w7", "w8", "w9"}
ClosingWorkers == {"w10", "w11", "w12"}
WindowWorkers == OpeningWorkers \cup ClosingWorkers

WindowRequests(w) ==
    IF w \in OpeningWorkers THEN {Request("", "a:1", <<Cities[Rank(w)]>>)}
    ELSE {Request("", "a:1", <<"x">>)}

InitWindow == InitWith({DefaultConfig})

\* some minutes pass
Wait ==
    /\ now < MaxWaits * WaitMinutes * Minute
    /\ now' = now + WaitMinutes * Minute
    /\ UNCHANGED middleware

\* the step of a request that evaluates the bucket of a tier
EvaluationOf(w, tier) ==
    \/ tier = TierOrder[1] /\ pc[w] = "check1" /\ pc'[w] # "check1"
    \/ tier = TierOrder[2] /\ pc[w] = "check2" /\ pc'[w] # "check2"

\* what the test notes at every step
Observe ==
    /\ driver' =
          [driver EXCEPT
              !.arrival = [w \in Workers |->
                              IF pc[w] = "idle" /\ pc'[w] # "idle" THEN now ELSE @[w]],
              !.evaluated = [w \in Workers |-> [tier \in {"global", "param"} |->
                                IF EvaluationOf(w, tier) THEN now ELSE @[w][tier]]],
              !.late = @ \/ \E w \in Workers : \E tier \in {"global", "param"} :
                              /\ EvaluationOf(w, tier)
                              /\ now - driver.arrival[w] >
                                     GetRateLimiterCleanupTimeout(settings)]
    /\ UNCHANGED weather

OpeningOver == \A v \in OpeningWorkers : pc[v] = "done"

\* time passes only while at most one request is in flight
AtMostOneInFlight ==
    Cardinality({v \in WindowWorkers : pc[v] \notin {"idle", "done"}}) <= 1

NextWindow ==
    \/ \E w \in OpeningWorkers : \E r \in WindowRequests(w) :
         NoneInFlight /\ Receive(w, r) /\ Observe
    \/ \E w \in ClosingWorkers : \E r \in WindowRequests(w) :
         OpeningOver /\ Receive(w, r) /\ Observe
    \/ \E w \in WindowWorkers : Handle(w) /\ Observe
    \/ Cleanup /\ Observe
    \/ OpeningOver /\ AtMostOneInFlight /\ Wait /\ Observe

SpecWindow == InitWindow /\ [][NextWindow]_vars

(***************************************************************************)
(* The service with everything that takes a registry lock running at once: *)
(* requests in flight, both cleanup goroutines, and ResetVisitors called   *)
(* again and again, time passing between the calls of ResetVisitors while  *)
(* at most one request is held up.                                         *)
(***************************************************************************)
LockWorkers == {"w1", "w2"}

LockRequests == {Request("", "a:1", <<"x">>)}

InitLocks == InitWith({TightConfig})

\* a request that has entered RateLimitMiddleware and has not ended
InFlight(w) == pc[w] \notin {"idle", "done"}

NextLocks ==
    \/ \E w \in LockWorkers : \E r \in LockRequests :
         Receive(w, r) /\ UNCHANGED others
    \/ \E w \in LockWorkers : Handle(w) /\ UNCHANGED others
    \/ Cleanup /\ UNCHANGED others
    \/ ResetVisitors /\ UNCHANGED others
    \/ reset = "idle" /\ (\E w \in LockWorkers : ~InFlight(w)) /\ Tick
         /\ UNCHANGED others

SpecLocks == InitLocks /\ [][NextLocks]_vars

(***************************************************************************)
(* The same service under fair scheduling, with time passing only before   *)
(* the first request.  A goroutine that can take a step takes it in the end; a      *)
(* goroutine that waits in Lock() gets the mutex in the end even if others *)
(* take it again and again (sync.Mutex hands the mutex to a waiter that    *)
(* has waited for long).  A cleanup goroutine and every request have       *)
(* nothing to wait for but the mutex; nothing makes the caller of          *)
(* ResetVisitors call it, and nothing makes time pass.                     *)
(***************************************************************************)
\* no request has arrived and ResetVisitors has not been called
NothingBegun ==
    /\ \A w \in LockWorkers : pc[w] = "idle"
    /\ reset = "idle" /\ globalVisitors = <<>> /\ paramVisitors = <<>>

NextFair ==
    \/ \E w \in LockWorkers : \E r \in LockRequests :
         Receive(w, r) /\ UNCHANGED others
    \/ \E w \in LockWorkers : Handle(w) /\ UNCHANGED others
    \/ Cleanup /\ UNCHANGED others
    \/ ResetVisitors /\ UNCHANGED others
    \/ NothingBegun /\ Tick /\ UNCHANGED others

\* ResetVisitors once it has been called
Resetting == ResetLockGlobal \/ ResetClearGlobal \/ ResetLockParam \/ ResetClearParam

Fairness ==
    /\ \A w \in LockWorkers : SF_vars(Handle(w) /\ UNCHANGED others)
    /\ SF_vars((SweepLockGlobal \/ SweepScanGlobal) /\ UNCHANGED others)
    /\ SF_vars((SweepLockParam \/ SweepScanParam) /\ UNCHANGED others)
    /\ SF_vars(Resetting /\ UNCHANGED others)

SpecFair == InitLocks /\ [][NextFair]_vars /\ Fairness

(***************************************************************************)
(* Two requests of one client in flight at once with no time passing,      *)
(* under bursts of 1.  The test notes the order in which the requests took *)
(* each registry lock and the order in which each tier was evaluated.      *)
(***************************************************************************)
OrderWorkers == {"w1", "w2"}

OrderRequests == {Request("", "a:1", <<"x">>), Request("", "a:1", <<"y">>)}

InitOrder == InitWith({TightConfig, NarrowGlobalConfig})

\* the step of a request that takes the lock of a registry
LockingOf(w, tier) ==
    \/ tier = "global" /\ pc[w] = "lockGlobal" /\ pc'[w] # "lockGlobal"
    \/ tier = "param" /\ pc[w] = "lockParam" /\ pc'[w] # "lockParam"

\* the (tier, request) pairs of which a step is the locking, or the evaluation
Lockings ==
    {e \in {"global", "param"} \X Workers : LockingOf(e[2], e[1])}
Evaluations ==
    {e \in {"global", "param"} \X Workers : EvaluationOf(e[2], e[1])}

\* what the test notes at every step
Log ==
    /\ driver' =
          [driver EXCEPT
              !.locks = IF Lockings = {} THEN @
                        ELSE Append(@, CHOOSE e \in Lockings : TRUE),
              !.decisions = IF Evaluations = {} THEN @
                            ELSE Append(@, CHOOSE e \in Evaluations : TRUE)]
    /\ UNCHANGED weather

NextOrder ==
    \/ \E w \in OrderWorkers : \E r \in OrderRequests : Receive(w, r) /\ Log
    \/ \E w \in OrderWorkers : Handle(w) /\ Log

SpecOrder == InitOrder /\ [][NextOrder]_vars

(***************************************************************************)
(* Four requests issued one at a time, of two clients and for two          *)
(* locations, under the defaults and under a global burst of 3, with time  *)
(* passing between them.                                                   *)
(***************************************************************************)
CostRequests ==
    {Request("", "a:1", <<"x">>), Request("", "a:1", <<"y">>), Request("", "b:1", <<"x">>)}

InitCost == InitWith({DefaultConfig, SmallBurstConfig})

NextCost ==
    \/ \E w \in BackToBackWorkers : \E r \in CostRequests : Arrive(w, r)
    \/ \E w \in BackToBackWorkers : Handle(w) /\ UNCHANGED others
    \/ NoneInFlight /\ Tick /\ UNCHANGED others

SpecCost == InitCost /\ [][NextCost]_vars

(***************************************************************************)
(* Four requests of one client issued one at a time under the defaults,    *)
(* within the first minute or after the service was left alone for some    *)
(* minutes, the cleanup goroutines running.  Next to the service the test  *)
(* runs the same requests at the same times through a middleware whose     *)
(* cleanup goroutines were never started, and notes what it answers.       *)
(***************************************************************************)
EvictionRequests == {Request("", "a:1", <<"x">>), Request("", "a:1", <<"y">>)}

InitEviction == InitWith({DefaultConfig})

\* the service is left alone for some minutes
LeftAlone ==
    /\ now <= MaxTicks * TickSeconds
    /\ now' = now + WaitMinutes * Minute
    /\ UNCHANGED middleware

\* the limiter the middleware without cleanup holds for a key: the one it made
\* at the first request of the key, or a new one
ShadowLimiter(shadow, tier, key, par, cfg, t) ==
    IF <<tier, key, par>> \in DOMAIN shadow THEN shadow[<<tier, key, par>>]
    ELSE IF tier = "global"
         THEN NewLimiter(GetGlobalRateLimiterConfig(cfg).rate,
                         GetGlobalRateLimiterConfig(cfg).burst, t)
         ELSE NewLimiter(GetParamRateLimiterConfig(cfg).rate,
                         GetParamRateLimiterConfig(cfg).burst, t)

\* RateLimitMiddleware without cleanup, run from its first to its last line
Shadowed(shadow, r, cfg, t) ==
    LET key == getIP(r)
        par == ParamKeyOf(r)
        first == Allow(ShadowLimiter(shadow, "global", key, "", cfg, t), t)
        held == ShadowLimiter(shadow, "param", key, par, cfg, t)
        second == Allow(held, t)
    IN  [shadow |-> Put(Put(shadow, <<"global", key, "">>, first.limiter),
                        <<"param", key, par>>,
                        IF first.ok THEN second.limiter ELSE held),
         outcome |-> IF ~first.ok THEN "DENY_GLOBAL"
                     ELSE IF ~second.ok THEN "DENY_PARAM" ELSE "ALLOW"]

ArriveAtBoth(w, r) ==
    /\ NoneInFlight
    /\ Receive(w, r)
    /\ LET run == Shadowed(driver.shadow, r, settings, now)
       IN  driver' = [driver EXCEPT !.arrival[w] = now,
                                    !.shadow = run.shadow,
                                    !.expected[w] = run.outcome]
    /\ UNCHANGED weather

NextEviction ==
    \/ \E w \in BackToBackWorkers : \E r \in EvictionRequests : ArriveAtBoth(w, r)
    \/ \E w \in BackToBackWorkers : Handle(w) /\ UNCHANGED others
    \/ Cleanup /\ UNCHANGED others
    \/ NoneInFlight /\ Tick /\ UNCHANGED others
    \/ NoneInFlight /\ LeftAlone /\ UNCHANGED others

SpecEviction == InitEviction /\ [][NextEviction]_vars

(***************************************************************************)
(* Two clients.  The requests of one client are issued one at a time; the  *)
(* requests of the other client arrive and proceed in between as they      *)
(* like.  What a client is to expect is noted from its own requests alone. *)
(***************************************************************************)
InitFootprint == InitWith({DefaultConfig, SmallBurstConfig})

ArriveAmongOthers(w, r) ==
    /\ \A v \in Workers : InFlight(v) => ip[v] # getIP(r)
    /\ Receive(w, r)
    /\ LET run == Shadowed(driver.shadow, r, settings, now)
       IN  driver' = [driver EXCEPT !.arrival[w] = now,
                                    !.shadow = run.shadow,
                                    !.expected[w] = run.outcome]
    /\ UNCHANGED weather

NextFootprint ==
    \/ \E w \in BackToBackWorkers : \E r \in CostRequests : ArriveAmongOthers(w, r)
    \/ \E w \in BackToBackWorkers : Handle(w) /\ UNCHANGED others
    \/ NoneInFlight /\ Tick /\ UNCHANGED others

SpecFootprint == InitFootprint /\ [][NextFootprint]_vars

(***************************************************************************)
(* One client asking with no parameter, with the parameter "__none__" and  *)
(* with the parameter x, with no time passing.                             *)
(***************************************************************************)
SentinelRequests ==
    {Request("", "a:1", <<>>), Request("", "a:1", <<NoneParam>>),
     Request("", "a:1", <<"x">>)}

InitSentinel == InitWith({DefaultConfig, TightConfig})

NextSentinel ==
    \/ \E w \in BackToBackWorkers : \E r \in SentinelRequests :
         Receive(w, r) /\ UNCHANGED others
    \/ \E w \in BackToBackWorkers : Handle(w) /\ UNCHANGED others

SpecSentinel == InitSentinel /\ [][NextSentinel]_vars

(***************************************************************************)
(* Properties.                                                             *)
(***************************************************************************)
GlobalBurst == GetGlobalRateLimiterConfig(settings).burst
ParamBurst == GetParamRateLimiterConfig(settings).burst

Arrived(w) == pc[w] # "idle"

\* the requests of the client of w that arrived no later than w
ClientIndex(w) ==
    Cardinality({v \in Workers : Arrived(v) /\ Rank(v) <= Rank(w) /\ ip[v] = ip[w]})

\* the requests for the key of w that arrived no later than w
KeyIndex(w) ==
    Cardinality({v \in Workers : /\ Arrived(v) /\ Rank(v) <= Rank(w)
                                 /\ ip[v] = ip[w] /\ param[v] = param[w]})

\* C1: after a reset and with no time passing, of the requests of one client that
\* each carry another parameter value, the first globalBurst (10 when nothing is
\* configured) are allowed, and the later ones, request globalBurst+1 first, are
\* answered with status 429 and the message "Too Many Requests (global limit)".
C1_GlobalBurst ==
    /\ settings = DefaultConfig => GlobalBurst = 10
    /\ \A w \in Workers :
          pc[w] = "done" =>
              IF ClientIndex(w) <= GlobalBurst
              THEN Outcome(resp[w]) = "ALLOW"
              ELSE /\ resp[w].status = 429
                   /\ resp[w].message = "Too Many Requests (global limit)"
                   /\ resp[w].next = 0

\* the eleventh request of a client, under the default configuration, is denied
C1_Witness ==
    /\ settings = DefaultConfig
    /\ \E w \in Workers : /\ pc[w] = "done"
                          /\ ClientIndex(w) = 11
                          /\ Outcome(resp[w]) = "DENY_GLOBAL"
                          /\ \A v \in Workers :
                                Arrived(v) /\ ip[v] = ip[w] /\ v # w =>
                                    Outcome(resp[v]) = "ALLOW"

\* C2: with no time passing and while the global bucket of the client still has
\* tokens, of the requests for one (client, parameter) pair the first paramBurst
\* (2 when nothing is configured) are allowed, and the later ones, request
\* paramBurst+1 first, are answered with status 429 and the message
\* "Too Many Requests (per-param limit)".
C2_ParamBurst ==
    /\ settings = DefaultConfig => ParamBurst = 2
    /\ \A w \in Workers :
          pc[w] = "done" /\ ClientIndex(w) <= GlobalBurst =>
              IF KeyIndex(w) <= ParamBurst
              THEN Outcome(resp[w]) = "ALLOW"
              ELSE /\ resp[w].status = 429
                   /\ resp[w].message = "Too Many Requests (per-param limit)"
                   /\ resp[w].next = 0

\* the third request for a key, under the default configuration, is denied by the
\* parameter tier while the global bucket of its client still holds a token
C2_Witness ==
    /\ settings = DefaultConfig
    /\ \E w \in Workers :
          /\ pc[w] = "done"
          /\ KeyIndex(w) = 3
          /\ Outcome(resp[w]) = "DENY_PARAM"
          /\ ip[w] \in DOMAIN globalVisitors
          /\ WholeTokens(limiters[globalVisitors[ip[w]].limiter], now) >= 1
          /\ \A v \in Workers :
                Arrived(v) /\ ip[v] = ip[w] /\ param[v] = param[w] /\ v # w =>
                    Outcome(resp[v]) = "ALLOW"

\* the whole tokens of the bucket a request holds for a tier, at the present time
Held(w, tier) == WholeTokens(limiters[TierLimiter(w, tier)], now)

\* C3: a request whose two buckets both hold fewer than one token when the
\* middleware evaluates them ends with the global denial (message "Too Many
\* Requests (global limit)"), and a per-param denial is only ever written after the
\* global bucket has granted a token.
C3_FixedOrder ==
    [][\A w \in Workers :
          /\ ( /\ pc[w] = "check1" /\ pc'[w] # "check1"
               /\ Held(w, "global") < 1 /\ Held(w, "param") < 1 )
                 => /\ pc'[w] = "done"
                    /\ Outcome(resp'[w]) = "DENY_GLOBAL"
                    /\ resp'[w].message = "Too Many Requests (global limit)"
          /\ ( Outcome(resp[w]) # "DENY_PARAM" /\ Outcome(resp'[w]) = "DENY_PARAM" )
                 => /\ pc[w] = "check2"
                    /\ Held(w, "param") < 1]_vars

\* a request is denied by the global tier after an earlier request for the same key
\* was allowed, and the buckets of both tiers for its key are empty
C3_Witness ==
    \E w, v \in Workers :
        /\ pc[w] = "done" /\ Outcome(resp[w]) = "DENY_GLOBAL"
        /\ pc[v] = "done" /\ Outcome(resp[v]) = "ALLOW"
        /\ ip[v] = ip[w] /\ param[v] = param[w]
        /\ ip[w] \in DOMAIN globalVisitors
        /\ WholeTokens(limiters[globalVisitors[ip[w]].limiter], now) < 1
        /\ ip[w] \in DOMAIN paramVisitors
        /\ param[w] \in DOMAIN paramVisitors[ip[w]]
        /\ WholeTokens(limiters[paramVisitors[ip[w]][param[w]].limiter], now) < 1

\* the requests that arrived for the key of w
SameKey(w) == {v \in Workers : Arrived(v) /\ ip[v] = ip[w] /\ param[v] = param[w]}

\* how many of the requests ws have ended with outcome o
Count(ws, o) == Cardinality({v \in ws : pc[v] = "done" /\ Outcome(resp[v]) = o})

\* every request that arrived is for one and the same (client, parameter) pair
OneKey == \A v, w \in Workers : Arrived(v) /\ Arrived(w) => v \in SameKey(w)

\* C4 as stated: once N requests of one client for one new parameter value,
\* run in any interleaving with no time passing, have all ended, exactly
\* min(N, paramBurst) of them were allowed.
C4_AsStated ==
    \A w \in Workers :
        Arrived(w) /\ OneKey /\ NoneInFlight =>
            Count(SameKey(w), "ALLOW") = Min(Cardinality(SameKey(w)), ParamBurst)

\* C4, amended: never more than paramBurst requests for one new key are allowed;
\* once all have ended, exactly min(M, paramBurst) were allowed, where M is the
\* number of them the global tier let through, and every other one was denied; M
\* is min(N, globalBurst) when the N requests are all the client has sent.
C4_NoDoubleIssue ==
    \A w \in Workers :
        Arrived(w) =>
            LET ws == SameKey(w)
                allowed == Count(ws, "ALLOW")
                deniedParam == Count(ws, "DENY_PARAM")
                deniedGlobal == Count(ws, "DENY_GLOBAL")
            IN  /\ allowed <= ParamBurst
                /\ NoneInFlight =>
                      /\ allowed = Min(allowed + deniedParam, ParamBurst)
                      /\ allowed + deniedParam + deniedGlobal = Cardinality(ws)
                /\ NoneInFlight /\ OneKey =>
                      allowed + deniedParam = Min(Cardinality(ws), GlobalBurst)

\* three requests for one key, under the default configuration: two allowed and
\* one denied by the parameter tier
C4_Witness ==
    /\ settings = DefaultConfig
    /\ NoneInFlight /\ OneKey
    /\ \E w \in Workers :
          /\ Cardinality(SameKey(w)) = 3
          /\ Count(SameKey(w), "ALLOW") = 2
          /\ Count(SameKey(w), "DENY_PARAM") = 1

\* the three shapes a finished request can have
Allowed(r) ==
    /\ r.next = 1
    /\ r.status = 0 /\ r.contentType = "" /\ r.error = "" /\ r.message = ""

Denied(r, message) ==
    /\ r.next = 0
    /\ r.status = 429 /\ r.contentType = "application/json"
    /\ r.error # "" /\ r.message = message

\* C5: a request that has not ended has written nothing and has not reached the
\* wrapped handler; a request that has ended has exactly one of three shapes: the
\* handler invoked once and nothing written by the middleware, or the handler not
\* invoked and status 429, Content-Type application/json and the message of the
\* global tier, or the same with the message of the parameter tier.  The response
\* is written in the one step that ends the request, and the message names the tier
\* whose bucket refused the token.
C5_ThreeOutcomes ==
    /\ [](\A w \in Workers :
             IF pc[w] = "done"
             THEN \/ Allowed(resp[w]) /\ Outcome(resp[w]) = "ALLOW"
                  \/ /\ Denied(resp[w], "Too Many Requests (global limit)")
                     /\ Outcome(resp[w]) = "DENY_GLOBAL"
                  \/ /\ Denied(resp[w], "Too Many Requests (per-param limit)")
                     /\ Outcome(resp[w]) = "DENY_PARAM"
             ELSE resp[w] = NoResponse)
    /\ [][\A w \in Workers :
             resp'[w] # resp[w] =>
                 /\ pc[w] # "done" /\ pc'[w] = "done"
                 /\ Outcome(resp'[w]) = "ALLOW" =>
                        pc[w] = "check2" /\ Held(w, "param") >= 1
                 /\ Outcome(resp'[w]) = "DENY_GLOBAL" =>
                        pc[w] = "check1" /\ Held(w, "global") < 1
                 /\ Outcome(resp'[w]) = "DENY_PARAM" =>
                        pc[w] = "check2" /\ Held(w, "param") < 1]_vars

\* one request was allowed and another was denied by the parameter tier
C5_Witness ==
    \E w, v \in Workers :
        /\ pc[w] = "done" /\ Allowed(resp[w])
        /\ pc[v] = "done" /\ Denied(resp[v], "Too Many Requests (per-param limit)")

\* the requests that hold a bucket of the global tier, and of both tiers
HoldsGlobal(w) == pc[w] \in {"lockParam", "getParam", "check1", "check2"}
HoldsParam(w) == pc[w] \in {"check1", "check2"}

\* the buckets the registries refer to
Registered ==
    {globalVisitors[k].limiter : k \in DOMAIN globalVisitors}
        \cup UNION {{paramVisitors[k][q].limiter : q \in DOMAIN paramVisitors[k]} :
                       k \in DOMAIN paramVisitors}

\* C6: with no sweep and no reset, every bucket that exists is the one bucket its
\* registry holds for its key: a request that has called GetGlobalLimiter holds the
\* bucket registered for its client, a request that has called getParamLimiter
\* holds the bucket registered for its (client, parameter) pair, so requests for
\* the same key hold the same bucket, and no second bucket was made for any key.
C6_OneBucketPerKey ==
    /\ DOMAIN limiters = Registered
    /\ \A id \in DOMAIN limiters :
          /\ id[4] = 0
          /\ id[1] = "global" => globalVisitors[id[2]].limiter = id
          /\ id[1] = "param" => paramVisitors[id[2]][id[3]].limiter = id
    /\ \A w \in Workers :
          /\ HoldsGlobal(w) =>
                /\ ip[w] \in DOMAIN globalVisitors
                /\ globalLimiter[w] = globalVisitors[ip[w]].limiter
          /\ HoldsParam(w) =>
                /\ ip[w] \in DOMAIN paramVisitors
                /\ param[w] \in DOMAIN paramVisitors[ip[w]]
                /\ paramLimiter[w] = paramVisitors[ip[w]][param[w]].limiter
    /\ \A v, w \in Workers :
          /\ HoldsGlobal(v) /\ HoldsGlobal(w) /\ ip[v] = ip[w] =>
                globalLimiter[v] = globalLimiter[w]
          /\ HoldsParam(v) /\ HoldsParam(w) /\ ip[v] = ip[w] /\ param[v] = param[w] =>
                paramLimiter[v] = paramLimiter[w]

\* three requests for one key, none of them evaluated yet, hold the same two
\* buckets, and these are the only buckets there are
C6_Witness ==
    /\ \A w \in QuietWorkers : pc[w] = "check1"
    /\ OneKey
    /\ Cardinality(DOMAIN limiters) = 2
    /\ \A v, w \in QuietWorkers :
          globalLimiter[v] = globalLimiter[w] /\ paramLimiter[v] = paramLimiter[w]

\* the configured cleanup timeout, in seconds
CleanupTimeout == GetRateLimiterCleanupTimeout(settings)

\* a pass of a cleanup goroutine over its registry
GlobalPass == sweep["global"].pc = "scan" /\ sweep'["global"].pc = "sleep"
ParamPass == sweep["param"].pc = "scan" /\ sweep'["param"].pc = "sleep"

\* C7: a sweep pass removes from its registry every entry with now - lastSeen
\* greater than the cleanup timeout, and leaves every entry with now - lastSeen at
\* most the timeout in place with its bucket and its lastSeen unchanged; it adds
\* no entry.
C7_SweepPass ==
    [][/\ GlobalPass =>
             /\ DOMAIN globalVisitors' \subseteq DOMAIN globalVisitors
             /\ \A k \in DOMAIN globalVisitors :
                   IF now - globalVisitors[k].lastSeen > CleanupTimeout
                   THEN k \notin DOMAIN globalVisitors'
                   ELSE /\ k \in DOMAIN globalVisitors'
                        /\ globalVisitors'[k] = globalVisitors[k]
                        /\ limiters'[globalVisitors[k].limiter]
                               = limiters[globalVisitors[k].limiter]
       /\ ParamPass =>
             /\ DOMAIN paramVisitors' \subseteq DOMAIN paramVisitors
             /\ \A k \in DOMAIN paramVisitors : \A q \in DOMAIN paramVisitors[k] :
                   IF now - paramVisitors[k][q].lastSeen > CleanupTimeout
                   THEN k \in DOMAIN paramVisitors' => q \notin DOMAIN paramVisitors'[k]
                   ELSE /\ k \in DOMAIN paramVisitors'
                        /\ q \in DOMAIN paramVisitors'[k]
                        /\ paramVisitors'[k][q] = paramVisitors[k][q]
                        /\ limiters'[paramVisitors[k][q].limiter]
                               = limiters[paramVisitors[k][q].limiter]]_vars

\* both cleanup goroutines have just finished a pass: the entries of one client,
\* idle for longer than the timeout, are gone from both registries, and the entries
\* of another client, idle for exactly the timeout, are still there
C7_Witness ==
    /\ now > 0
    /\ \A s \in Sweepers : sweep[s].pc = "sleep" /\ sweep[s].since = now
    /\ \E w, v \in Workers :
          /\ pc[w] = "done" /\ pc[v] = "done"
          /\ ip[w] \notin DOMAIN globalVisitors
          /\ ip[w] \notin DOMAIN paramVisitors
          /\ ip[v] \in DOMAIN globalVisitors
          /\ now - globalVisitors[ip[v]].lastSeen = CleanupTimeout
          /\ ip[v] \in DOMAIN paramVisitors
          /\ param[v] \in DOMAIN paramVisitors[ip[v]]
          /\ now - paramVisitors[ip[v]][param[v]].lastSeen = CleanupTimeout

\* the request of w has no value for the rate-limited parameter
Paramless(w) == Arrived(w) /\ (req[w].query = <<>> \/ req[w].query = <<"">>)

\* the parameter-less requests of the client of w
ParamlessOf(w) == {v \in Workers : Paramless(v) /\ ip[v] = ip[w]}

\* C8: a request whose parameter is missing or empty has the key "__none__"; once
\* it has called getParamLimiter it holds the bucket registered for its client
\* under "__none__", so with no time passing at most paramBurst of the
\* parameter-less requests of one client are allowed; and it ends like any other
\* request, allowed or denied by one of the tiers.
C8_SentinelBucket ==
    \A w \in Workers :
        Paramless(w) =>
            /\ param[w] = "__none__"
            /\ HoldsParam(w) =>
                  /\ ip[w] \in DOMAIN paramVisitors
                  /\ "__none__" \in DOMAIN paramVisitors[ip[w]]
                  /\ paramLimiter[w] = paramVisitors[ip[w]]["__none__"].limiter
            /\ \A v \in ParamlessOf(w) :
                  HoldsParam(v) /\ HoldsParam(w) => paramLimiter[v] = paramLimiter[w]
            /\ Count(ParamlessOf(w), "ALLOW") <= ParamBurst
            /\ pc[w] = "done" =>
                  Outcome(resp[w]) \in {"ALLOW", "DENY_GLOBAL", "DENY_PARAM"}

\* three requests of one client under the default configuration, with the
\* parameter missing in one and empty in another: two allowed, the third denied by
\* the parameter tier
C8_Witness ==
    /\ settings = DefaultConfig
    /\ \E w \in Workers :
          /\ Cardinality(ParamlessOf(w)) = 3
          /\ \E v \in ParamlessOf(w) : req[v].query = <<>>
          /\ \E v \in ParamlessOf(w) : req[v].query = <<"">>
          /\ \A v \in ParamlessOf(w) : param[v] = "__none__"
          /\ Count(ParamlessOf(w), "ALLOW") = 2
          /\ Count(ParamlessOf(w), "DENY_PARAM") = 1

\* the first hop of the X-Forwarded-For header of a request, trimmed
FirstHop(r) == TrimSpace(SplitFirst(r.xff, ","))

\* C9 as stated: the identity of a request with an X-Forwarded-For header is the
\* first hop of the header, trimmed, so that requests with different first hops
\* hold different global buckets; the identity of a request without the header is
\* its remote address without the port.
C9_AsStated ==
    /\ \A w \in Workers :
          Arrived(w) =>
              ip[w] = IF req[w].xff # <<>> THEN FirstHop(req[w])
                      ELSE SplitHostPort(req[w].remoteAddr).host
    /\ \A v, w \in Workers :
          /\ HoldsGlobal(v) /\ HoldsGlobal(w)
          /\ req[v].xff # <<>> /\ req[w].xff # <<>>
          /\ FirstHop(req[v]) # FirstHop(req[w])
          => globalLimiter[v] # globalLimiter[w]

\* a numeric setting as the claim has it: the configured number, or the default
\* for a value that is absent, no number, or zero
NumberOr(raw, default) == IF raw.tag = "num" /\ raw.num # 0 THEN raw.num ELSE default

\* a setting that is a duration text (a number and a unit), in seconds
Seconds(raw) == IF raw.unit = "s" THEN raw.num
                ELSE IF raw.unit = "m" THEN raw.num * 60
                ELSE raw.num * 3600

\* the rates and bursts the settings yield, and those of the buckets made with them
RatesAndBursts ==
    /\ GetGlobalRateLimiterConfig(settings).rate = NumberOr(settings.global_rate, 10)
    /\ GetGlobalRateLimiterConfig(settings).burst = NumberOr(settings.global_burst, 10)
    /\ GetParamRateLimiterConfig(settings).rate = NumberOr(settings.param_rate, 2)
    /\ GetParamRateLimiterConfig(settings).burst = NumberOr(settings.param_burst, 2)
    /\ \A id \in DOMAIN limiters :
          /\ id[1] = "global" =>
                /\ limiters[id].limit = NumberOr(settings.global_rate, 10)
                /\ limiters[id].burst = NumberOr(settings.global_burst, 10)
          /\ id[1] = "param" =>
                /\ limiters[id].limit = NumberOr(settings.param_rate, 2)
                /\ limiters[id].burst = NumberOr(settings.param_burst, 2)

\* C10 as stated: each of the five settings yields its default (10, 10, 2, 2 and
\* 3 minutes) when it is absent, unparsable or zero, and the configured value
\* otherwise.
C10_AsStated ==
    /\ RatesAndBursts
    /\ LET raw == settings.cleanup_timeout
       IN  GetRateLimiterCleanupTimeout(settings) =
               IF raw.tag = "dur" /\ raw.unit \in {"s", "m", "h"} /\ raw.num # 0
               THEN Seconds(raw)
               ELSE 3 * 60

\* C10, amended: the rates and bursts yield their defaults (10, 10, 2, 2) when
\* absent, unparsable or zero and the configured value otherwise; the cleanup
\* timeout yields 3 minutes when absent, empty or not a duration, and otherwise the
\* configured duration, a zero duration included.
C10_Defaulting ==
    /\ RatesAndBursts
    /\ LET raw == settings.cleanup_timeout
       IN  GetRateLimiterCleanupTimeout(settings) =
               IF raw.tag = "dur" /\ raw.unit \in {"s", "m", "h"} THEN Seconds(raw)
               ELSE IF raw.tag = "num" /\ raw.num = 0 THEN 0
               ELSE 3 * 60

\* a zero global burst and a zero cleanup timeout: the request holds a bucket with
\* the default burst of 10, and a pass of the cleanup goroutine has just removed
\* the entry of its client, which the default timeout of 3 minutes would have kept
C10_Witness ==
    /\ settings.global_burst = Num(0)
    /\ settings.cleanup_timeout \in {Num(0), Dur(0, "s")}
    /\ pc["w1"] = "check1"
    /\ limiters[globalLimiter["w1"]].burst = 10
    /\ now > 0
    /\ sweep["global"].pc = "sleep" /\ sweep["global"].since = now
    /\ ip["w1"] \notin DOMAIN globalVisitors
    /\ now < 3 * 60

\* the outcomes of the two runs are the same, as far as the second run has come
SameOutcomes ==
    \A w \in SecondRun :
        pc[w] = "done" => Outcome(resp[w]) = Outcome(resp[Original(w)])

\* a tier's bucket is full again before its entry can be swept: the cleanup timeout
\* is at least the time the tier needs to refill from empty to its burst
RefillsWithin(timeout, c) == timeout * c.rate >= c.burst * TokenUnit

SweepsUnseen ==
    /\ RefillsWithin(CleanupTimeout, GetGlobalRateLimiterConfig(settings))
    /\ RefillsWithin(CleanupTimeout, GetParamRateLimiterConfig(settings))

EmptyRegistries == globalVisitors = <<>> /\ paramVisitors = <<>>

FullBuckets(w) ==
    HoldsParam(w) /\ pc[w] = "check1" =>
        /\ Held(w, "global") = GlobalBurst
        /\ Held(w, "param") = ParamBurst

\* C12 as stated: if no request was in flight when ResetVisitors returned, both
\* registries are empty until the next request arrives, and that request is
\* evaluated against new buckets that hold their full burst.
C12_AsStated ==
    driver.resets = 1 /\ driver.quiet =>
        /\ pc[NextWorker] = "idle" /\ NoneInFlight => EmptyRegistries
        /\ FullBuckets(NextWorker)

\* C12, amended: if no request was in flight at any moment between the call of
\* ResetVisitors and its return, both registries are empty until the next request
\* arrives, and that request is evaluated against new buckets that hold their
\* full burst; the param registry is empty at the return in any case.
C12_FullReset ==
    /\ driver.resets = 1 /\ ~driver.overlap =>
          /\ pc[NextWorker] = "idle" => EmptyRegistries /\ limiters = <<>>
          /\ FullBuckets(NextWorker)
    /\ driver.resets = 1 /\ driver.quiet /\ pc[NextWorker] = "idle" => paramVisitors = <<>>

\* two requests of one client were over before ResetVisitors was called, and the
\* request of that client issued after its return holds two full buckets
C12_Witness ==
    /\ driver.resets = 1 /\ ~driver.overlap
    /\ pc[NextWorker] = "check1"
    /\ \A w \in EarlyWorkers : pc[w] = "done" /\ ip[w] = ip[NextWorker]
                                  /\ param[w] = param[NextWorker]
                                  /\ Outcome(resp[w]) = "ALLOW"
    /\ Held(NextWorker, "global") = 10
    /\ Held(NextWorker, "param") = 2

(***************************************************************************)
(* The weather repository.                                                 *)
(***************************************************************************)
\* a call has returned a record
Returned(c) == call[c].pc = "done" /\ call[c].err = "" /\ call[c].weather # Nil

\* a call has returned a record from the cache, from the provider
FromCache(c) == Returned(c) /\ call[c].weather.cached
FromProvider(c) == Returned(c) /\ ~call[c].weather.cached

\* the time for which a record is cached: the configured time, ten minutes
\* where none is configured, for ever where it is zero
Lifetime ==
    LET raw == env.expiration
    IN  IF raw.tag # "dur" THEN 10 * Minute
        ELSE IF raw.num = 0 THEN Never
        ELSE IF raw.unit = "s" THEN raw.num
        ELSE IF raw.unit = "m" THEN raw.num * Minute
        ELSE 10 * Minute

\* the earlier calls that cached a record for the location of a call, and the
\* last of them
Writers(c) ==
    {d \in Callers : /\ CallRank(d) < CallRank(c)
                     /\ call[d].location = call[c].location
                     /\ call[d].wroteAt >= 0}
LastWriter(c) == CHOOSE d \in Writers(c) : \A e \in Writers(c) : CallRank(e) <= CallRank(d)

\* the record cached before a call is still there when the call reads the cache
Fresh(c) ==
    /\ Writers(c) # {}
    /\ Lifetime = Never \/ call[c].readAt < call[LastWriter(c)].wroteAt + Lifetime

\* C13: with a working provider and a working cache that is empty at first, of
\* calls made one after another every call returns a record, marked cached
\* exactly when an earlier call for the same location cached one that has not
\* expired when the call reads the cache: the first call for a location returns
\* cached=false, the later ones before the expiry cached=true, and the next one
\* after the expiry fetches again, returns cached=false and caches again.
C13_CacheAside ==
    \A c \in Callers :
        call[c].pc = "done" =>
            /\ Returned(c)
            /\ FromCache(c) <=> Fresh(c)
            /\ FromCache(c) => call[c].asked = 0 /\ call[c].sets = 0
            /\ FromProvider(c) => call[c].asked = 1 /\ call[c].wroteAt >= call[c].readAt

\* a first call has fetched, a second one shortly after it was served from the
\* cache, a third one after the expiry has fetched again and a fourth one was
\* served from the cache again
C13_Witness ==
    /\ \A c \in Callers : call[c].pc = "done" /\ call[c].location = "a"
    /\ FromProvider("g1") /\ FromCache("g2") /\ FromProvider("g3") /\ FromCache("g4")
    /\ call["g2"].readAt < call["g3"].readAt
    /\ Lifetime = Minute

\* the cache read of a call succeeded and what it read decodes
Hit(c) ==
    /\ call[c].readAt >= 0
    /\ call[c].val.err = ""
    /\ UnmarshalWeather(call[c].val.val).err = ""

\* C14: a call of GetWeather whose cache read succeeded and gave a text that
\* decodes returns the decoded record with Cached=true and no error, and neither
\* calls the provider nor writes to the cache, at its return and at every moment
\* before; the text it read is what Redis held under "weather:"+location.
C14_HitShortCircuit ==
    \A c \in Callers :
        Hit(c) =>
            /\ call[c].pc = "done"
            /\ call[c].err = ""
            /\ call[c].weather =
                   [UnmarshalWeather(call[c].val.val).weather EXCEPT !.cached = TRUE]
            /\ call[c].asked = 0
            /\ call[c].sets = 0

\* a call that read a text that is no record has fetched and cached, and a
\* second call was served the record it cached
C14_Witness ==
    /\ call["g1"].location = "a" /\ call["g1"].val.err = "" /\ ~Hit("g1")
    /\ call["g1"].wroteAt >= 0
    /\ call["g2"].location = "a" /\ Hit("g2") /\ call["g2"].pc = "done"
    /\ call["g2"].weather = WeatherResponse("a", 21, "sunny", TRUE)

\* the cache read of a call failed or gave a text that does not decode
Miss(c) == call[c].readAt >= 0 /\ ~Hit(c)

\* a call has asked the provider and got no report: no answer at all, a status
\* other than 200, a body that does not decode
Unanswered(c) == call[c].asked > 0 /\ call[c].resp.err # ""
Refused(c) ==
    call[c].asked > 0 /\ call[c].resp.err = "" /\ call[c].resp.status # StatusOK
Undecodable(c) ==
    /\ call[c].asked > 0
    /\ call[c].resp.err = "" /\ call[c].resp.status = StatusOK
    /\ ~call[c].resp.body.json

\* a call has returned an error, no record, and has not written to the cache
Failed(c) ==
    /\ call[c].err # "" /\ call[c].weather = Nil
    /\ call[c].sets = 0 /\ call[c].wroteAt = -1

\* C15: a call of GetWeather that missed the cache and has returned, returns an
\* error and no record and has written nothing to the cache if the API key is
\* missing (the error is then "API key missing" and the provider was not called
\* at all), if the request to the provider failed or was answered with a status
\* other than 200 ("external API error", for status 404 the provider's message
\* or "city not found"), or if the body of the answer does not decode (the
\* decoder's error); the provider is called at most once.
C15_FailedFetch ==
    \A c \in Callers :
        Miss(c) /\ call[c].pc = "done" =>
            /\ env.apiKey = "" =>
                   Failed(c) /\ call[c].err = ErrAPIKeyMissing /\ call[c].asked = 0
            /\ env.apiKey # "" => call[c].asked = 1
            /\ Unanswered(c) => Failed(c) /\ call[c].err = ErrExternalAPI
            /\ Refused(c) /\ call[c].resp.status # StatusNotFound =>
                   Failed(c) /\ call[c].err = ErrExternalAPI
            /\ Refused(c) /\ call[c].resp.status = StatusNotFound =>
                   /\ Failed(c)
                   /\ call[c].err \in {CityNotFound,
                                        UnmarshalErrorReply(call[c].resp.body).message}
            /\ Undecodable(c) => Failed(c) /\ call[c].err = SyntaxError

\* with an API key, one call has failed for a transport error and one for a body
\* that does not decode, and Redis still holds nothing
C15_Witness ==
    /\ env.apiKey # ""
    /\ \A c \in RepositoryCallers :
          Miss(c) /\ call[c].pc = "done" /\ Failed(c) /\ call[c].location = "a"
    /\ Unanswered("g1")
    /\ Undecodable("g2")
    /\ cache = <<>>

(***************************************************************************)
(* The weather handler.                                                    *)
(***************************************************************************)
\* what a call of HandleWeather has written: a status, an error text, a message
Wrote(h, status, error, message) ==
    /\ handler[h].w.status = status
    /\ handler[h].w.contentType = "application/json"
    /\ handler[h].w.error = error
    /\ handler[h].w.message = message

ReadmeBurst == 2

\* C17: with nothing configured and no time passing, of the requests of one
\* client, whatever parameter values they carry, the first two at most are
\* allowed, and every later one is answered with status 429.
C17_AsStated ==
    settings = DefaultConfig =>
        \A w \in Workers :
            pc[w] = "done" /\ ClientIndex(w) > ReadmeBurst =>
                /\ Outcome(resp[w]) # "ALLOW"
                /\ resp[w].status = StatusTooManyRequests

(***************************************************************************)
(* The token buckets.                                                      *)
(***************************************************************************)
\* the capacity of a bucket, in units, and the burst configured for its tier
Capacity(l) == l.burst * TokenUnit
TierBurst(id) == IF id[1] = "global" THEN GlobalBurst ELSE ParamBurst

\* the tokens of a bucket, as stored at its last refill and as refilled by now,
\* lie between zero and its capacity
Bounded(l) ==
    /\ 0 <= l.tokens /\ l.tokens <= Capacity(l)
    /\ 0 <= Advance(l, now) /\ Advance(l, now) <= Capacity(l)
    /\ l.last <= now

\* the buckets a step creates are full
NewFull ==
    \A id \in DOMAIN limiters' \ DOMAIN limiters :
        /\ limiters'[id].burst = TierBurst(id)
        /\ limiters'[id].tokens = Capacity(limiters'[id])
        /\ limiters'[id].last = now

\* C18: in every reachable state every bucket of either tier holds at least zero
\* tokens and at most its capacity, the burst configured for its tier, which it
\* was created with; and every bucket is created holding its capacity.
C18_TokenBound ==
    /\ [](\A id \in DOMAIN limiters :
             limiters[id].burst = TierBurst(id) /\ Bounded(limiters[id]))
    /\ [][NewFull]_vars

\* one bucket is empty, and one has been idle for longer than it takes to fill
C18_Witness ==
    /\ \E id \in DOMAIN limiters : Advance(limiters[id], now) = 0
    /\ \E id \in DOMAIN limiters :
          LET l == limiters[id]
          IN  l.tokens + (now - l.last) * l.limit > Capacity(l)

\* a request evaluates a bucket in this step, and the bucket grants or denies
GrantedBy(w, id) ==
    \/ pc[w] = "check1" /\ pc'[w] = "check2" /\ id = TierLimiter(w, TierOrder[1])
    \/ /\ pc[w] = "check2" /\ pc'[w] = "done" /\ id = TierLimiter(w, TierOrder[2])
       /\ Outcome(resp'[w]) = "ALLOW"
DeniedBy(w, id) ==
    \/ /\ pc[w] = "check1" /\ pc'[w] = "done" /\ id = TierLimiter(w, TierOrder[1])
       /\ resp'[w] = TierDenial(TierOrder[1])
    \/ /\ pc[w] = "check2" /\ pc'[w] = "done" /\ id = TierLimiter(w, TierOrder[2])
       /\ resp'[w] = TierDenial(TierOrder[2])
EvaluatedBy(w, id) ==
    \/ pc[w] = "check1" /\ pc'[w] # "check1" /\ id = TierLimiter(w, TierOrder[1])
    \/ pc[w] = "check2" /\ pc'[w] # "check2" /\ id = TierLimiter(w, TierOrder[2])

\* C19: in every step and for every bucket, with its tokens counted as refilled
\* up to the time of the step: a request that evaluates the bucket is granted
\* exactly when the bucket holds one token or more; a grant leaves it with exactly
\* one token less; a denial leaves it with the tokens it had after the refill;
\* and in a step in which nothing is granted by it the bucket does not lose
\* tokens.
C19_Accounting ==
    [][\A id \in DOMAIN limiters :
          LET refilled == Advance(limiters[id], now)
              kept == id \in DOMAIN limiters'
          IN  /\ \A w \in Workers :
                    EvaluatedBy(w, id) =>
                        /\ GrantedBy(w, id) \/ DeniedBy(w, id)
                        /\ GrantedBy(w, id) <=> refilled >= TokenUnit
                        /\ GrantedBy(w, id) /\ kept =>
                               /\ limiters'[id].tokens = refilled - TokenUnit
                               /\ Advance(limiters'[id], now') = refilled - TokenUnit
                        /\ DeniedBy(w, id) /\ kept =>
                               /\ limiters'[id].tokens = refilled
                               /\ Advance(limiters'[id], now') = refilled
              /\ kept /\ (\A w \in Workers : ~GrantedBy(w, id)) =>
                    Advance(limiters'[id], now') >= refilled]_vars

\* a request was denied by the bucket of its parameter, which holds half a token
\* now as it did after the refill, after the bucket of its client had granted
C19_Witness ==
    \E w \in Workers :
        /\ pc[w] = "done" /\ Outcome(resp[w]) = "DENY_PARAM"
        /\ ip[w] \in DOMAIN paramVisitors /\ param[w] \in DOMAIN paramVisitors[ip[w]]
        /\ LET l == limiters[paramVisitors[ip[w]][param[w]].limiter]
           IN  l.last = now /\ l.tokens > 0 /\ l.tokens < TokenUnit
        /\ ip[w] \in DOMAIN globalVisitors
        /\ limiters[globalVisitors[ip[w]].limiter].tokens = 0
        /\ limiters[globalVisitors[ip[w]].limiter].last = now

\* the rate per minute and the burst configured for a tier
TierConfig(tier) ==
    IF tier = "global" THEN GetGlobalRateLimiterConfig(settings)
    ELSE GetParamRateLimiterConfig(settings)

\* a finished request has evaluated the bucket of a tier, and was granted by it
Evaluated(w, tier) ==
    /\ pc[w] = "done"
    /\ tier = "param" => Outcome(resp[w]) \in {"ALLOW", "DENY_PARAM"}
GrantedIn(w, tier) ==
    /\ pc[w] = "done"
    /\ IF tier = "global" THEN Outcome(resp[w]) \in {"ALLOW", "DENY_PARAM"}
       ELSE Outcome(resp[w]) = "ALLOW"

\* the requests before w that evaluated the bucket of w in a tier
Earlier(w, tier) ==
    {v \in RefillWorkers : /\ Evaluated(v, tier)
                           /\ Rank(v) < Rank(w)
                           /\ ip[v] = ip[w]
                           /\ tier = "param" => param[v] = param[w]}

\* the bucket of w was emptied at time te and has granted nothing since: it
\* granted its burst at te, and nothing later
Drained(w, tier, te) ==
    /\ Cardinality({v \in Earlier(w, tier) :
                       GrantedIn(v, tier) /\ driver.arrival[v] = te})
          = TierConfig(tier).burst
    /\ \A v \in Earlier(w, tier) : GrantedIn(v, tier) => driver.arrival[v] <= te

\* the bucket of w was in use and then left alone for the time it takes to fill
Rested(w, tier) ==
    /\ Earlier(w, tier) # {}
    /\ \A v \in Earlier(w, tier) :
          (driver.arrival[w] - driver.arrival[v]) * TierConfig(tier).rate
              >= TierConfig(tier).burst * TokenUnit

\* the requests that evaluated the bucket of w at the instant of w, up to w, and
\* the first of them
Instant(w, tier) ==
    {v \in Earlier(w, tier) \cup {w} : driver.arrival[v] = driver.arrival[w]}
First(w, tier) == CHOOSE v \in Instant(w, tier) : \A u \in Instant(w, tier) : Rank(v) <= Rank(u)

\* C20: a request that evaluates a bucket emptied at time te, which has granted
\* nothing since, is granted exactly when the time since te times the rate per
\* minute is 60 or more, that is from 60/rate seconds after te on (6 seconds for
\* the global tier and 30 for the param tier when nothing is configured); and of
\* the requests that come at one instant to a bucket left alone for burst/rate
\* minutes, the first burst are granted and the next ones are denied.
C20_Recovery ==
    /\ settings = DefaultConfig =>
          /\ 6 * TierConfig("global").rate = TokenUnit
          /\ 30 * TierConfig("param").rate = TokenUnit
    /\ \A tier \in {"global", "param"} : \A w \in RefillWorkers :
          Evaluated(w, tier) =>
              /\ \A te \in {driver.arrival[v] : v \in Earlier(w, tier)} :
                    Drained(w, tier, te) =>
                        (GrantedIn(w, tier) <=>
                            (driver.arrival[w] - te) * TierConfig(tier).rate >= TokenUnit)
              /\ Rested(First(w, tier), tier) =>
                    (GrantedIn(w, tier) <=>
                        Cardinality(Instant(w, tier)) <= TierConfig(tier).burst)

\* with nothing configured, six requests for one location: two granted and one
\* denied at once, one granted and one denied half a minute later, and one
\* granted after another half minute
C20_Witness ==
    /\ settings = DefaultConfig
    /\ \A w \in RefillWorkers : pc[w] = "done" /\ param[w] = "x"
    /\ Outcome(resp["w1"]) = "ALLOW" /\ Outcome(resp["w2"]) = "ALLOW"
    /\ Outcome(resp["w3"]) = "DENY_PARAM" /\ driver.arrival["w3"] = 0
    /\ Outcome(resp["w4"]) = "ALLOW" /\ driver.arrival["w4"] = TickSeconds
    /\ Outcome(resp["w5"]) = "DENY_PARAM" /\ driver.arrival["w5"] = TickSeconds
    /\ Outcome(resp["w6"]) = "ALLOW" /\ driver.arrival["w6"] = 2 * TickSeconds

(***************************************************************************)
(* The registries.                                                         *)
(***************************************************************************)
\* the param registry holds an entry for the key of a request
ParamEntry(w) ==
    ip[w] \in DOMAIN paramVisitors /\ param[w] \in DOMAIN paramVisitors[ip[w]]

\* no other request that has arrived carries the key of w
OnlyOfKey(w) ==
    \A v \in Workers \ {w} : Arrived(v) => ip[v] # ip[w] \/ param[v] # param[w]

\* C21: a request that has ended with the global denial has left the param
\* registry as it was: if no other request carried its key, the param registry
\* holds no entry for that key.
C21_AsStated ==
    \A w \in Workers :
        pc[w] = "done" /\ Outcome(resp[w]) = "DENY_GLOBAL" /\ OnlyOfKey(w) =>
            ~ParamEntry(w)

(***************************************************************************)
(* Admission within a window of time.                                      *)
(***************************************************************************)
\* a request that reached the wrapped handler
Admitted(w) == pc[w] = "done" /\ Outcome(resp[w]) = "ALLOW"

\* two requests of one client, for the param tier of one (client, parameter) pair
OfOneKey(tier, v, w) == ip[v] = ip[w] /\ (tier = "param" => param[v] = param[w])

\* in every window that begins and ends at a moment at which a request was
\* admitted, the admitted requests of one key are at most burst + T * rate / 60
AdmissionBound(at, tier) ==
    LET admitted == {u \in WindowWorkers : Admitted(u)}
        moments == {at[u] : u \in admitted}
    IN  \A from, to \in moments :
            from <= to =>
                \A w \in admitted :
                    at[w] = to =>
                        Cardinality({u \in admitted : /\ OfOneKey(tier, u, w)
                                                      /\ at[u] >= from
                                                      /\ at[u] <= to}) * TokenUnit
                            <= TierConfig(tier).burst * TokenUnit
                                  + (to - from) * TierConfig(tier).rate

\* the time at which a request reached the wrapped handler
ReachedAt == [w \in Workers |-> driver.evaluated[w][TierOrder[2]]]

\* the time at which the bucket of a tier was evaluated for a request
EvaluatedAt(tier) == [w \in Workers |-> driver.evaluated[w][tier]]

HoldsRegistered(w, tier) ==
    IF tier = "global"
    THEN /\ ip[w] \in DOMAIN globalVisitors
         /\ globalVisitors[ip[w]].limiter = globalLimiter[w]
    ELSE /\ ParamEntry(w)
         /\ paramVisitors[ip[w]][param[w]].limiter = paramLimiter[w]

\* C23: a request that is about to call Allow() on a bucket holds the bucket
\* that is registered for its key at that moment: no cleanup pass and no reset
\* has removed the entry since the request fetched it.
C23_AsStated ==
    \A w \in Workers :
        /\ pc[w] = "check1" => HoldsRegistered(w, TierOrder[1])
        /\ pc[w] = "check2" => HoldsRegistered(w, TierOrder[2])

(***************************************************************************)
(* How entries leave the registries.                                       *)
(***************************************************************************)
\* the entries of the param registry, as (client, parameter) pairs
ParamEntries(pv) == UNION {{<<k, q>> : q \in DOMAIN pv[k]} : k \in DOMAIN pv}

\* C24: with ResetVisitors not called, a step in which an entry leaves a registry
\* is a pass of the cleanup goroutine of that registry, and now - lastSeen of the
\* entry was greater than the cleanup timeout at that pass; a step of a request
\* removes no entry from either registry.
C24_OnlySweeper ==
    [][/\ \A k \in DOMAIN globalVisitors \ DOMAIN globalVisitors' :
             GlobalPass /\ Stale(globalVisitors[k], now, CleanupTimeout)
       /\ \A e \in ParamEntries(paramVisitors) \ ParamEntries(paramVisitors') :
             ParamPass /\ Stale(paramVisitors[e[1]][e[2]], now, CleanupTimeout)
       /\ (\E w \in Workers : pc'[w] # pc[w]) =>
             /\ DOMAIN globalVisitors \subseteq DOMAIN globalVisitors'
             /\ ParamEntries(paramVisitors) \subseteq ParamEntries(paramVisitors')]_vars

\* the global cleanup goroutine has just dropped the entry of a client whose
\* request ended a minute ago, while a request of another client that has
\* fetched its limiters keeps its entries; the param goroutine has not run yet
C24_Witness ==
    /\ now = Minute
    /\ sweep["global"] = [pc |-> "sleep", since |-> now]
    /\ sweep["param"] = [pc |-> "sleep", since |-> 0]
    /\ pc["w1"] = "done" /\ pc["w2"] = "check1"
    /\ ip["w1"] \notin DOMAIN globalVisitors
    /\ ip["w1"] \in DOMAIN paramVisitors
    /\ HoldsRegistered("w2", "global") /\ HoldsRegistered("w2", "param")

(***************************************************************************)
(* The inner maps of the param registry.                                   *)
(***************************************************************************)
\* no client of the param registry has an empty parameter map
NoEmptyInnerMap(pv) == \A k \in DOMAIN pv : DOMAIN pv[k] # {}

\* C25: whenever muParam is free, no client of the param registry maps to an
\* empty parameter map; the step of getParamLimiter that adds a client adds the
\* entry of the request with it, and a pass of the param cleanup goroutine that
\* removes the last entry of a client removes the client.
C25_NoEmptyInnerMap ==
    /\ [](muParam = "free" => NoEmptyInnerMap(paramVisitors))
    /\ [][/\ \A w \in Workers :
                pc[w] = "getParam" /\ pc'[w] # "getParam" =>
                    /\ DOMAIN paramVisitors' = DOMAIN paramVisitors \cup {ip[w]}
                    /\ param[w] \in DOMAIN paramVisitors'[ip[w]]
          /\ ParamPass =>
                \A k \in DOMAIN paramVisitors :
                    k \in DOMAIN paramVisitors' <=>
                        \E q \in DOMAIN paramVisitors[k] :
                            ~Stale(paramVisitors[k][q], now, CleanupTimeout)]_vars

\* the param cleanup goroutine has just dropped the only entry of a client, and
\* the client with it, and has kept the entry of another client; the global
\* goroutine has not run yet
C25_Witness ==
    /\ muParam = "free"
    /\ now = Minute
    /\ sweep["param"] = [pc |-> "sleep", since |-> now]
    /\ sweep["global"] = [pc |-> "sleep", since |-> 0]
    /\ pc["w1"] = "done" /\ pc["w2"] = "done"
    /\ ip["w1"] \in DOMAIN globalVisitors
    /\ ip["w1"] \notin DOMAIN paramVisitors
    /\ ip["w2"] \in DOMAIN paramVisitors
    /\ DOMAIN paramVisitors[ip["w2"]] = {param["w2"]}

(***************************************************************************)
(* lastSeen.                                                               *)
(***************************************************************************)
\* the step of a request that runs GetGlobalLimiter, and the one that runs
\* getParamLimiter
GlobalLookup(w) == pc[w] = "getGlobal" /\ pc'[w] # "getGlobal"
ParamLookup(w) == pc[w] = "getParam" /\ pc'[w] # "getParam"

\* what a lookup leaves behind for an entry: a new entry with a full bucket where
\* there was none, the same bucket with the tokens it had where there was one,
\* and in both cases lastSeen = now
LookedUp(present, before, after, tier) ==
    /\ after.lastSeen = now
    /\ after.limiter \in DOMAIN limiters'
    /\ IF present
       THEN /\ after.limiter = before.limiter
            /\ limiters'[after.limiter] = limiters[after.limiter]
       ELSE /\ after.limiter \notin DOMAIN limiters
            /\ limiters'[after.limiter] =
                   NewLimiter(TierConfig(tier).rate, TierConfig(tier).burst, now)

\* both registries hold an entry for the key of a request
HoldsEntry(w) == ip[w] \in DOMAIN globalVisitors /\ ParamEntry(w)

\* C26: the lookup of a request in a registry leaves the entry of its key with
\* lastSeen = now, newly made with a full bucket if the key was absent and with
\* the bucket it had, tokens unchanged, if the key was present; every request
\* makes both lookups before either bucket is evaluated, so also a request that
\* is denied; no other step changes a lastSeen; and a cleanup pass keeps every
\* entry whose last lookup is at most the cleanup timeout ago.
C26_LastSeen ==
    [][/\ \A w \in Workers :
             /\ GlobalLookup(w) =>
                    /\ ip[w] \in DOMAIN globalVisitors'
                    /\ LookedUp(ip[w] \in DOMAIN globalVisitors,
                                IF ip[w] \in DOMAIN globalVisitors
                                THEN globalVisitors[ip[w]] ELSE NoLimiter,
                                globalVisitors'[ip[w]], "global")
             /\ ParamLookup(w) =>
                    /\ <<ip[w], param[w]>> \in ParamEntries(paramVisitors')
                    /\ LookedUp(ParamEntry(w),
                                IF ParamEntry(w)
                                THEN paramVisitors[ip[w]][param[w]] ELSE NoLimiter,
                                paramVisitors'[ip[w]][param[w]], "param")
             /\ pc[w] # "done" /\ pc'[w] = "done" =>
                    globalLimiter[w] # NoLimiter /\ paramLimiter[w] # NoLimiter
       /\ \A k \in DOMAIN globalVisitors \cap DOMAIN globalVisitors' :
             globalVisitors'[k].lastSeen # globalVisitors[k].lastSeen =>
                 \E w \in Workers : GlobalLookup(w) /\ ip[w] = k
       /\ \A e \in ParamEntries(paramVisitors) \cap ParamEntries(paramVisitors') :
             paramVisitors'[e[1]][e[2]].lastSeen # paramVisitors[e[1]][e[2]].lastSeen =>
                 \E w \in Workers : ParamLookup(w) /\ ip[w] = e[1] /\ param[w] = e[2]
       /\ \A k \in DOMAIN globalVisitors :
             now - globalVisitors[k].lastSeen <= CleanupTimeout =>
                 k \in DOMAIN globalVisitors'
       /\ \A e \in ParamEntries(paramVisitors) :
             now - paramVisitors[e[1]][e[2]].lastSeen <= CleanupTimeout =>
                 e \in ParamEntries(paramVisitors')]_vars

\* a client whose entry was made at 0 s and looked up again at 30 s, by a request
\* that was denied, is still registered after the passes of both cleanup
\* goroutines at 60 s, with the bucket of the first request
C26_Witness ==
    /\ now = Minute
    /\ \A s \in Sweepers : sweep[s] = [pc |-> "sleep", since |-> now]
    /\ pc["w1"] = "done" /\ pc["w2"] = "done"
    /\ Outcome(resp["w1"]) = "ALLOW" /\ Outcome(resp["w2"]) = "DENY_PARAM"
    /\ HoldsEntry("w2")
    /\ globalVisitors[ip["w2"]].lastSeen = TickSeconds
    /\ paramVisitors[ip["w2"]][param["w2"]].lastSeen = TickSeconds
    /\ limiters[paramVisitors[ip["w2"]][param["w2"]].limiter].last = TickSeconds
    /\ ip["w1"] = ip["w2"] /\ param["w1"] = param["w2"]
    /\ limiters[globalVisitors[ip["w2"]].limiter].tokens = 0

(***************************************************************************)
(* The registry locks.                                                     *)
(***************************************************************************)
\* who is between Lock and Unlock of muGlobal, and of muParam: requests, the
\* cleanup goroutine of the registry, ResetVisitors
InGlobal ==
    {w \in Workers : pc[w] = "getGlobal"}
        \cup (IF sweep["global"].pc = "scan" THEN {"global"} ELSE {})
        \cup (IF reset = "clearGlobal" THEN {"reset"} ELSE {})
InParam ==
    {w \in Workers : pc[w] = "getParam"}
        \cup (IF sweep["param"].pc = "scan" THEN {"param"} ELSE {})
        \cup (IF reset = "clearParam" THEN {"reset"} ELSE {})

Holder(mu) == IF mu = "free" THEN {} ELSE {mu}

\* C27: at every moment at most one of the requests, the cleanup goroutine and
\* ResetVisitors is between Lock and Unlock of a registry lock, and it is the
\* holder of the lock; every step that changes a registry (its keys, an entry, a
\* lastSeen) is a step of the holder of its lock, who releases the lock with it;
\* so a cleanup pass, which is one such step, has no lookup of a request in its
\* registry between its Lock and its Unlock.
C27_MutualExclusion ==
    /\ [](InGlobal = Holder(muGlobal) /\ InParam = Holder(muParam))
    /\ [][/\ globalVisitors' # globalVisitors =>
                muGlobal \in InGlobal /\ muGlobal' = "free" /\ InGlobal' = {}
          /\ paramVisitors' # paramVisitors =>
                muParam \in InParam /\ muParam' = "free" /\ InParam' = {}
          /\ GlobalPass => \A w \in Workers : pc[w] # "getGlobal"
          /\ ParamPass => \A w \in Workers : pc[w] # "getParam"]_vars

\* the global cleanup goroutine is between its Lock and its Unlock with an entry
\* to drop, while a request and ResetVisitors wait for muGlobal, and another
\* request is between Lock and Unlock of muParam
C27_Witness ==
    /\ muGlobal = "global" /\ sweep["global"].pc = "scan"
    /\ \E k \in DOMAIN globalVisitors : Stale(globalVisitors[k], now, CleanupTimeout)
    /\ pc["w1"] = "getParam" /\ muParam = "w1"
    /\ pc["w2"] = "lockGlobal"
    /\ reset = "lockGlobal"

(***************************************************************************)
(* The order of the decisions.                                             *)
(***************************************************************************)
\* the place of a (tier, request) pair in what the test has noted
Place(log, e) == CHOOSE i \in 1..Len(log) : log[i] = e
Noted(log, e) == \E i \in 1..Len(log) : log[i] = e

\* two finished requests that evaluated one bucket of a tier
SharedBucket(tier, v, w) ==
    /\ v # w /\ pc[v] = "done" /\ pc[w] = "done"
    /\ OfOneKey(tier, v, w)
    /\ Noted(driver.decisions, <<tier, v>>) /\ Noted(driver.decisions, <<tier, w>>)

LockedBefore(tier, v, w) ==
    Place(driver.locks, <<tier, v>>) < Place(driver.locks, <<tier, w>>)
DecidedBefore(tier, v, w) ==
    Place(driver.decisions, <<tier, v>>) < Place(driver.decisions, <<tier, w>>)

\* C28 as stated: of two requests of one client in flight at once, the one that
\* took the registry lock first is the one whose bucket evaluation comes first,
\* so with a single token in the bucket it is the one that is granted.
C28_AsStated ==
    \A tier \in {"global", "param"} : \A v, w \in OrderWorkers :
        SharedBucket(tier, v, w) /\ LockedBefore(tier, v, w) =>
            /\ DecidedBefore(tier, v, w)
            /\ TierConfig(tier).burst = 1 => GrantedIn(v, tier)

\* C28: of two requests in flight at once that evaluate one bucket, the one whose
\* Allow() comes first is decided first, whichever of them took the registry
\* lock first: with a single token in the bucket the request evaluated first is
\* granted and the other one is denied.
C28_DecisionOrder ==
    \A tier \in {"global", "param"} : \A v, w \in OrderWorkers :
        /\ SharedBucket(tier, v, w) /\ DecidedBefore(tier, v, w)
        /\ TierConfig(tier).burst = 1
        => GrantedIn(v, tier) /\ ~GrantedIn(w, tier)

\* the request that took muGlobal second was evaluated first and is the one
\* that was allowed; the one that took it first met the global denial
C28_Witness ==
    /\ pc["w1"] = "done" /\ pc["w2"] = "done"
    /\ OfOneKey("param", "w1", "w2")
    /\ LockedBefore("global", "w1", "w2")
    /\ DecidedBefore("global", "w2", "w1")
    /\ Outcome(resp["w2"]) = "ALLOW"
    /\ Outcome(resp["w1"]) = "DENY_GLOBAL"

(***************************************************************************)
(* Termination.                                                            *)
(***************************************************************************)
\* a request has ended with one of the three outcomes
Decided(w) ==
    pc[w] = "done" /\ Outcome(resp[w]) \in {"ALLOW", "DENY_GLOBAL", "DENY_PARAM"}

\* C29: under fair scheduling every request that has entered RateLimitMiddleware
\* ends with ALLOW, DENY_GLOBAL or DENY_PARAM, whatever else is in flight and
\* with both cleanup goroutines running: from some moment on every request that
\* has arrived has ended so; and each registry lock is free again and again, so
\* every cleanup pass and every ResetVisitors call releases the lock it took.
C29_Termination ==
    /\ <>[](\A w \in LockWorkers : Arrived(w) => Decided(w))
    /\ []<>(muGlobal = "free")
    /\ []<>(muParam = "free")

\* two requests that arrived when both cleanup goroutines were due have ended,
\* one allowed and one denied; both passes are over, a ResetVisitors call made
\* after the lookups has emptied both registries and returned, both locks are free
C29_Witness ==
    /\ now = Minute
    /\ Outcome(resp["w1"]) = "ALLOW" /\ Outcome(resp["w2"]) = "DENY_GLOBAL"
    /\ \A w \in LockWorkers : Decided(w)
    /\ \A s \in Sweepers : sweep[s] = [pc |-> "sleep", since |-> now]
    /\ reset = "idle" /\ globalVisitors = <<>> /\ paramVisitors = <<>>
    /\ muGlobal = "free" /\ muParam = "free"

(***************************************************************************)
(* Deadlock.                                                               *)
(***************************************************************************)
\* the goroutines that wait in Lock() for a registry lock
WaitingGlobal ==
    {w \in Workers : pc[w] = "lockGlobal"}
        \cup (IF reset = "lockGlobal" THEN {"reset"} ELSE {})
WaitingParam ==
    {w \in Workers : pc[w] = "lockParam"}
        \cup (IF reset = "lockParam" THEN {"reset"} ELSE {})

\* a step of a goroutine that is under way: a request that has arrived, a
\* cleanup goroutine whose sleep is over, ResetVisitors after its call
Progress ==
    \/ \E w \in Workers : Handle(w)
    \/ SweepScanGlobal \/ SweepScanParam
    \/ Resetting

\* C30: no request, cleanup goroutine or ResetVisitors call holds muGlobal and
\* muParam at the same time, and none of them waits for one of the locks while
\* it holds the other; so in every state in which a goroutine is under way, one
\* that is under way can take a step: never is every one of them blocked.
C30_DeadlockFree ==
    /\ muGlobal = "free" \/ muParam = "free" \/ muGlobal # muParam
    /\ Holder(muGlobal) \cap WaitingParam = {}
    /\ Holder(muParam) \cap WaitingGlobal = {}
    /\ (\E w \in Workers : InFlight(w)) \/ reset # "idle"
           \/ (\E s \in Sweepers : sweep[s].pc = "scan")
         => ENABLED Progress

\* ResetVisitors holds muGlobal and the param cleanup goroutine holds muParam,
\* while one request waits for muGlobal and another one for muParam
C30_Witness ==
    /\ muGlobal = "reset" /\ muParam = "param"
    /\ pc["w1"] = "lockParam" /\ pc["w2"] = "lockGlobal"

(***************************************************************************)
(* What a denial costs.                                                    *)
(***************************************************************************)
\* the finished requests of a client that were granted by its global bucket
GlobalGrants(k) ==
    {v \in BackToBackWorkers :
        pc[v] = "done" /\ ip[v] = k /\ Outcome(resp[v]) \in {"ALLOW", "DENY_PARAM"}}

\* C31: a request that ends with the per-param denial was granted by the global
\* bucket of its client, which took one token for it, and the step that denies
\* leaves that bucket as it is: the token is not given back.  So with no time
\* passing the global bucket of a client has lost one token for every request of
\* the client that it granted, those denied by the param tier included, and once
\* it is empty the client is denied globally whatever the parameter.
C31_DenialCostsGlobal ==
    /\ [][\A w \in BackToBackWorkers :
            LET g == globalLimiter[w]
            IN  /\ pc[w] = "check1" /\ pc'[w] = "check2" =>
                     limiters'[g].tokens = Advance(limiters[g], now) - TokenUnit
                /\ pc[w] = "check2" /\ pc'[w] = "done" =>
                     /\ g \in DOMAIN limiters' /\ limiters'[g] = limiters[g]
                     /\ Outcome(resp'[w]) \in {"ALLOW", "DENY_PARAM"}]_vars
    /\ [](now = 0 /\ NoneInFlight =>
            \A k \in DOMAIN globalVisitors :
                LET l == limiters[globalVisitors[k].limiter]
                IN  l.tokens = Capacity(l) - TokenUnit * Cardinality(GlobalGrants(k)))

\* under a global burst of 3: two requests for x were allowed and a third one was
\* denied by the param tier; the global bucket is empty, and a request of the
\* same client for y, whose param bucket is full, is denied globally
C31_Witness ==
    /\ now = 0 /\ GlobalBurst = 3
    /\ \A w \in BackToBackWorkers : pc[w] = "done" /\ ip[w] = ip["w1"]
    /\ \A w \in {"w1", "w2", "w3"} : param[w] = "x"
    /\ Outcome(resp["w1"]) = "ALLOW" /\ Outcome(resp["w2"]) = "ALLOW"
    /\ Outcome(resp["w3"]) = "DENY_PARAM"
    /\ param["w4"] = "y" /\ Outcome(resp["w4"]) = "DENY_GLOBAL"
    /\ limiters[paramVisitors[ip["w4"]]["y"].limiter].tokens = ParamBurst * TokenUnit

\* the buckets of the param tier
ParamBuckets(heap) == {id \in DOMAIN heap : id[1] = "param"}

\* the finished requests for a (client, parameter) pair that were allowed
ParamGrants(k, q) ==
    {v \in BackToBackWorkers :
        pc[v] = "done" /\ ip[v] = k /\ param[v] = q /\ Outcome(resp[v]) = "ALLOW"}

\* C32: the step in which a request meets the global denial ends the request
\* without an evaluation of its param bucket: every param bucket there was
\* before the step is there after it with the same tokens and the same time of
\* its last refill.  So with no time passing a param bucket has lost one token
\* for every request that was allowed, and none for a request denied globally.
C32_GlobalDenialCostsNothing ==
    /\ [][\A w \in BackToBackWorkers :
            pc[w] = "check1" /\ pc'[w] = "done" =>
                /\ Outcome(resp'[w]) = "DENY_GLOBAL"
                /\ paramLimiter[w] \in ParamBuckets(limiters)
                /\ \A id \in ParamBuckets(limiters) :
                       id \in DOMAIN limiters' /\ limiters'[id] = limiters[id]]_vars
    /\ [](now = 0 /\ NoneInFlight =>
            \A e \in ParamEntries(paramVisitors) :
                LET l == limiters[paramVisitors[e[1]][e[2]].limiter]
                IN  l.tokens =
                        Capacity(l) - TokenUnit * Cardinality(ParamGrants(e[1], e[2])))

\* under a global burst of 3: one request for x and two for y were allowed, and
\* a second request for x then met the global denial; the bucket of (a, x) holds
\* the one token it held before that request
C32_Witness ==
    /\ now = 0 /\ GlobalBurst = 3 /\ ParamBurst = 2
    /\ \A w \in BackToBackWorkers : pc[w] = "done" /\ ip[w] = ip["w1"]
    /\ param["w1"] = "x" /\ param["w2"] = "y" /\ param["w3"] = "y" /\ param["w4"] = "x"
    /\ \A w \in {"w1", "w2", "w3"} : Outcome(resp[w]) = "ALLOW"
    /\ Outcome(resp["w4"]) = "DENY_GLOBAL"
    /\ limiters[paramVisitors[ip["w4"]]["x"].limiter].tokens = TokenUnit

(***************************************************************************)
(* Eviction and outcomes.                                                  *)
(***************************************************************************)
\* C33: under the defaults and with requests issued one at a time, every request
\* ends with the outcome that the same request at the same time gets from a
\* middleware whose cleanup goroutines were never started.
C33_EvictionNeutral ==
    \A w \in BackToBackWorkers :
        pc[w] = "done" => Outcome(resp[w]) = driver.expected[w]

\* a request for y and two for x were allowed at the start; four minutes later
\* both cleanup goroutines have dropped what was there, and a third request for
\* x is allowed by new buckets, as it is without cleanup
C33_Witness ==
    /\ now = WaitMinutes * Minute
    /\ \A s \in Sweepers : sweep[s] = [pc |-> "sleep", since |-> now]
    /\ \A w \in BackToBackWorkers : pc[w] = "done" /\ Outcome(resp[w]) = "ALLOW"
    /\ param["w1"] = "y" /\ \A w \in {"w2", "w3", "w4"} : param[w] = "x"
    /\ driver.arrival["w3"] = 0 /\ driver.arrival["w4"] = now
    /\ ParamEntries(paramVisitors) = {<<ip["w4"], "x">>}
    /\ driver.expected["w4"] = "ALLOW"

(***************************************************************************)
(* The footprint of a request.                                             *)
(***************************************************************************)
\* the global entry of a key with the bucket it holds, "none" when absent
GlobalEntryOf(gv, heap, k) ==
    IF k \in DOMAIN gv THEN <<gv[k].lastSeen, heap[gv[k].limiter]>> ELSE <<"none">>

\* the param entry of a pair with the bucket it holds, "none" when absent
ParamEntryOf(pv, heap, k, q) ==
    IF k \in DOMAIN pv /\ q \in DOMAIN pv[k]
    THEN <<pv[k][q].lastSeen, heap[pv[k][q].limiter]>> ELSE <<"none">>

Stepped(w) == pc'[w] # pc[w]

\* C34: a step of a request of client c with parameter key p leaves the global
\* entry of every other client and every param entry other than (c, p) as they
\* were, present or absent, with lastSeen and bucket; and every finished request
\* has the outcome that the client's own requests alone give, whatever requests
\* of another client went on in between.
C34_Footprint ==
    /\ [][\A w \in BackToBackWorkers : Stepped(w) =>
             /\ \A k \in DOMAIN globalVisitors \cup DOMAIN globalVisitors' :
                    k # ip'[w] =>
                        GlobalEntryOf(globalVisitors', limiters', k)
                            = GlobalEntryOf(globalVisitors, limiters, k)
             /\ \A e \in ParamEntries(paramVisitors) \cup ParamEntries(paramVisitors') :
                    e # <<ip'[w], param'[w]>> =>
                        ParamEntryOf(paramVisitors', limiters', e[1], e[2])
                            = ParamEntryOf(paramVisitors, limiters, e[1], e[2])]_vars
    /\ [](\A w \in BackToBackWorkers :
             pc[w] = "done" => Outcome(resp[w]) = driver.expected[w])

\* three requests of a for x, the third denied by the param tier, and before
\* it a request of b for x, allowed by buckets of its own that are short of the
\* one token it took
C34_Witness ==
    /\ \A w \in BackToBackWorkers : pc[w] = "done"
    /\ ip["w1"] = ip["w2"] /\ ip["w2"] = ip["w4"] /\ ip["w3"] # ip["w1"]
    /\ \A w \in BackToBackWorkers : param[w] = "x"
    /\ Outcome(resp["w3"]) = "ALLOW" /\ Outcome(resp["w4"]) = "DENY_PARAM"
    /\ driver.expected["w4"] = "DENY_PARAM"
    /\ LET held == limiters[paramVisitors[ip["w3"]]["x"].limiter]
       IN  held.tokens = Capacity(held) - TokenUnit
    /\ LET held == limiters[globalVisitors[ip["w3"]].limiter]
       IN  held.tokens = Capacity(held) - TokenUnit

(***************************************************************************)
(* The two cleanup goroutines.                                             *)
(***************************************************************************)
GlobalEntries(gv, heap) == [k \in DOMAIN gv |-> GlobalEntryOf(gv, heap, k)]

AllParamEntries(pv, heap) ==
    [e \in ParamEntries(pv) |-> ParamEntryOf(pv, heap, e[1], e[2])]

Due(s) == sweep[s].pc = "sleep" /\ now - sweep[s].since >= Minute

\* C35: a pass of the global cleanup leaves the param registry and its buckets
\* as they were and a pass of the param cleanup the global registry and its
\* buckets; a cleanup goroutine that is due starts its pass as soon as its own
\* mutex is free, whatever the other goroutine is doing; and a request's lookup
\* leaves the entry it looked for in the registry, whether or not the client's
\* entry of the other registry is there.
C35_IndependentSweeps ==
    /\ [][GlobalPass =>
             /\ paramVisitors' = paramVisitors
             /\ AllParamEntries(paramVisitors', limiters')
                    = AllParamEntries(paramVisitors, limiters)]_vars
    /\ [][ParamPass =>
             /\ globalVisitors' = globalVisitors
             /\ GlobalEntries(globalVisitors', limiters')
                    = GlobalEntries(globalVisitors, limiters)]_vars
    /\ [][\A w \in ServiceWorkers :
             /\ (pc[w] = "getGlobal" /\ Stepped(w)) =>
                    GlobalEntryOf(globalVisitors', limiters', ip[w]) # <<"none">>
             /\ (pc[w] = "getParam" /\ Stepped(w)) =>
                    ParamEntryOf(paramVisitors', limiters', ip[w], param[w])
                        # <<"none">>]_vars
    /\ [](/\ (Due("global") /\ muGlobal = "free") => ENABLED SweepLockGlobal
          /\ (Due("param") /\ muParam = "free") => ENABLED SweepLockParam)

\* a minute after its request for x the client's global entry has been dropped
\* by a pass of the global cleanup while the param entry is still there, the
\* param cleanup being at its pass; the client's next request has found no
\* global entry and made one, with a bucket of this moment
C35_Witness ==
    /\ now = Minute
    /\ sweep["global"] = [pc |-> "sleep", since |-> now]
    /\ sweep["param"].pc = "scan"
    /\ pc["w1"] = "done" /\ param["w1"] = "x" /\ pc["w2"] = "lockParam"
    /\ ip["w2"] = ip["w1"]
    /\ ParamEntryOf(paramVisitors, limiters, ip["w1"], "x") # <<"none">>
    /\ paramVisitors[ip["w1"]]["x"].lastSeen = 0
    /\ GlobalEntryOf(globalVisitors, limiters, ip["w2"])
           = <<now, NewLimiter(GetGlobalRateLimiterConfig(settings).rate,
                               GetGlobalRateLimiterConfig(settings).burst, now)>>

\* both cleanup goroutines at their pass at once
BothPassesAtOnce == sweep["global"].pc = "scan" /\ sweep["param"].pc = "scan"

(***************************************************************************)
(* The parameter value "__none__".                                         *)
(***************************************************************************)
\* the request carries the value "__none__" itself
Literal(w) == Arrived(w) /\ req[w].query = <<NoneParam>>

\* the requests of the client of w that carry no value or "__none__"
SentinelOf(w) == {v \in Workers : (Paramless(v) \/ Literal(v)) /\ ip[v] = ip[w]}

\* C36: a request whose parameter value is "__none__" itself has the param key
\* of its client's requests without a parameter and holds the one bucket
\* registered under that key, the same as any such request holds; of the two
\* kinds together at most paramBurst are allowed with no time passing.
C36_SentinelCollision ==
    \A w \in BackToBackWorkers :
        Literal(w) =>
            /\ param[w] = NoneParam
            /\ HoldsParam(w) =>
                  paramLimiter[w] = paramVisitors[ip[w]][NoneParam].limiter
            /\ \A v \in SentinelOf(w) :
                  HoldsParam(v) /\ HoldsParam(w) => paramLimiter[v] = paramLimiter[w]
            /\ Count(SentinelOf(w), "ALLOW") <= ParamBurst

\* under the defaults a request without a parameter and one with "__none__" are
\* allowed, a second one with "__none__" is denied by the param tier, and a
\* request for x is allowed
C36_Witness ==
    /\ settings = DefaultConfig
    /\ \A w \in BackToBackWorkers : pc[w] = "done"
    /\ Paramless("w1") /\ Outcome(resp["w1"]) = "ALLOW"
    /\ Literal("w2") /\ Outcome(resp["w2"]) = "ALLOW"
    /\ Literal("w3") /\ Outcome(resp["w3"]) = "DENY_PARAM"
    /\ param["w4"] = "x" /\ Outcome(resp["w4"]) = "ALLOW"
    /\ DOMAIN paramVisitors[ip["w1"]] = {NoneParam, "x"}

(***************************************************************************)
(* Where the buckets are evaluated.                                        *)
(***************************************************************************)
\* the request is at one of its two calls of Allow
Evaluating(w) == pc[w] \in {"check1", "check2"}

\* C37: a request at a call of Allow holds neither mutex; a request holds the
\* global mutex exactly while it is inside GetGlobalLimiter and the param mutex
\* exactly while it is inside getParamLimiter; and the step of Allow changes no
\* registry.
C37_AllowOutsideLocks ==
    /\ [](\A w \in LockWorkers :
             /\ Evaluating(w) => muGlobal # w /\ muParam # w
             /\ muGlobal = w <=> pc[w] = "getGlobal"
             /\ muParam = w <=> pc[w] = "getParam")
    /\ [][\A w \in LockWorkers :
             (Evaluating(w) /\ Stepped(w)) =>
                 /\ globalVisitors' = globalVisitors
                 /\ paramVisitors' = paramVisitors
                 /\ muGlobal' = muGlobal /\ muParam' = muParam]_vars

\* a request is at its first call of Allow while another request is inside
\* GetGlobalLimiter with the global mutex and the param cleanup is at its pass
\* with the param mutex
C37_Witness ==
    /\ pc["w1"] = "check1"
    /\ pc["w2"] = "getGlobal" /\ muGlobal = "w2"
    /\ sweep["param"].pc = "scan" /\ muParam = "param"
    /\ HoldsRegistered("w1", "global") /\ HoldsRegistered("w1", "param")

====
